---- MODULE Spec2Model ----
(***************************************************************************)
(* Request pipeline of vinext: path normalisation, the middleware runner,  *)
(* the App Router worker entry and the Pages Router worker entries (the    *)
(* generated one and the example one), with the header merge step.         *)
(*                                                                         *)
(* A pathname is a sequence of units.  In a raw URL pathname a unit is a   *)
(* character or one percent-escape triplet ("%61"); the unit "%" stands    *)
(* for a malformed escape.  After decoding, every unit is one character.   *)
(* Query strings are not modelled (url.search is empty).                   *)
(*                                                                         *)
(* Spec is one request through a worker entry, SpecPair two runMiddleware  *)
(* calls; SpecMatch, SpecSafe, SpecNormalize and SpecRun are single calls  *)
(* of matchPattern / matchesMiddleware, isSafeRegex, normalizePath and     *)
(* runMiddleware over bounded sets of arguments.                           *)
(***************************************************************************)
EXTENDS Naturals, Integers, Sequences, FiniteSets, TLC

\* ------------------------------------------------------------------------
\* Bounds
\* ------------------------------------------------------------------------
MaxPathLen == 4
MaxPairLen == 3
MaxPatternLen == 4
MaxMatchPathLen == 3
MaxMatcherItems == 2
MaxRegexLen == 7
MaxNormLen == 6
MaxCookies == 2

\* ------------------------------------------------------------------------
\* String helpers over sequences of units
\* ------------------------------------------------------------------------
None == <<"undefined">>
URIError == <<"URIError">>

startsWith(s, p) == Len(s) >= Len(p) /\ SubSeq(s, 1, Len(p)) = p

endsWith(s, p) == Len(s) >= Len(p) /\ SubSeq(s, Len(s) - Len(p) + 1, Len(s)) = p

includes(s, p) == \E i \in 1..(Len(s) - Len(p) + 1) : SubSeq(s, i, i + Len(p) - 1) = p

slice(s, n) == SubSeq(s, n + 1, Len(s))

replaceAllBackslash(s) == [i \in 1..Len(s) |-> IF s[i] = "\\" THEN "/" ELSE s[i]]

RECURSIVE split(_)
split(s) ==
  IF s = <<>> THEN << <<>> >>
  ELSE LET rest == split(Tail(s)) IN
       IF Head(s) = "/" THEN << <<>> >> \o rest
       ELSE << <<Head(s)>> \o Head(rest) >> \o Tail(rest)

RECURSIVE join(_)
join(segs) ==
  IF segs = <<>> THEN <<>>
  ELSE IF Len(segs) = 1 THEN Head(segs)
  ELSE Head(segs) \o <<"/">> \o join(Tail(segs))

RECURSIVE stripTrailingSlashes(_)
stripTrailingSlashes(s) ==
  IF s # <<>> /\ s[Len(s)] = "/" THEN stripTrailingSlashes(SubSeq(s, 1, Len(s) - 1))
  ELSE s

\* ------------------------------------------------------------------------
\* URL parsing, decoding, normalisation
\* ------------------------------------------------------------------------
RawUnits == {"/", "\\", "a", "%61", "%2F", "%5C", "%"}

RECURSIVE SeqsUpTo(_, _)
SeqsUpTo(S, n) ==
  IF n = 0 THEN {<<>>}
  ELSE LET shorter == SeqsUpTo(S, n - 1) IN
       shorter \cup {Append(s, u) : s \in {t \in shorter : Len(t) = n - 1}, u \in S}

\* new URL(request.url).pathname for an http(s) request target: the path
\* always starts with "/" and the parser turns every backslash into a slash.
urlPathname(target) == <<"/">> \o replaceAllBackslash(target)

Pathnames == {urlPathname(t) : t \in SeqsUpTo(RawUnits, MaxPathLen - 1)}

decodeUnit(u) ==
  CASE u = "%61" -> "a"
    [] u = "%2F" -> "/"
    [] u = "%5C" -> "\\"
    [] u = "%20" -> " "
    [] OTHER -> u

\* A decoder that keeps a malformed escape as it is.
decodeURIComponentLenient(p) == [i \in 1..Len(p) |-> decodeUnit(p[i])]

decodeURIComponent(p) ==
  IF \E i \in 1..Len(p) : p[i] = "%" THEN URIError
  ELSE [i \in 1..Len(p) |-> decodeUnit(p[i])]

RECURSIVE resolveSegments(_, _)
resolveSegments(segments, resolved) ==
  IF segments = <<>> THEN resolved
  ELSE LET segment == Head(segments) IN
       IF segment = <<>> \/ segment = <<".">> THEN resolveSegments(Tail(segments), resolved)
       ELSE IF segment = <<".", ".">>
            THEN resolveSegments(Tail(segments),
                                 IF resolved = <<>> THEN <<>>
                                 ELSE SubSeq(resolved, 1, Len(resolved) - 1))
            ELSE resolveSegments(Tail(segments), Append(resolved, segment))

\* A fast-path test that looks for empty segments only.
isCanonicalSlashesOnly(pathname) ==
  \/ pathname = <<"/">>
  \/ /\ Len(pathname) > 1
     /\ pathname[1] = "/"
     /\ ~includes(pathname, <<"/", "/">>)

isCanonical(pathname) ==
  \/ pathname = <<"/">>
  \/ /\ Len(pathname) > 1
     /\ pathname[1] = "/"
     /\ ~includes(pathname, <<"/", "/">>)
     /\ ~includes(pathname, <<"/", ".", "/">>)
     /\ ~includes(pathname, <<"/", ".", ".", "/">>)
     /\ ~endsWith(pathname, <<"/", ".">>)
     /\ ~endsWith(pathname, <<"/", ".", ".">>)

\* The procedure after the fast path: split, resolve, join.
splitResolveJoin(pathname) == <<"/">> \o join(resolveSegments(split(pathname), <<>>))

normalizePath(pathname) ==
  IF isCanonical(pathname) THEN pathname
  ELSE <<"/">> \o join(resolveSegments(split(pathname), <<>>))

\* url.pathname = p on an http(s) URL: a backslash is a path separator and
\* is serialised as a slash, a space is percent-encoded; the other units of
\* the model are kept.
setUrlPathname(p) ==
  [i \in 1..Len(p) |-> CASE p[i] = "\\" -> "/" [] p[i] = " " -> "%20" [] OTHER -> p[i]]

\* ------------------------------------------------------------------------
\* Middleware matcher (path templates)
\* ------------------------------------------------------------------------
WordChars == {"a", "p", "i", "api", "-", "_"}

RECURSIVE wordRun(_)
wordRun(s) == IF s # <<>> /\ Head(s) \in WordChars THEN 1 + wordRun(Tail(s)) ELSE 0

RECURSIVE textRun(_)
textRun(s) == IF s # <<>> /\ Head(s) \notin {"/", ":", "."} THEN 1 + textRun(Tail(s)) ELSE 0

\* A tokenizer that leaves the dot of a template unescaped.
RECURSIVE tokenizeDotUnescaped(_)
tokenizeDotUnescaped(pattern) ==
  IF pattern = <<>> THEN <<>>
  ELSE LET n2 == IF startsWith(pattern, <<"/", ":">>) THEN wordRun(slice(pattern, 2)) ELSE 0
           n1 == IF Head(pattern) = ":" THEN wordRun(Tail(pattern)) ELSE 0
       IN  IF n2 > 0 /\ Len(pattern) > 2 + n2 /\ pattern[3 + n2] = "*"
             THEN <<"(", "?", ":", "/", ".", "*", ")", "?">>
                    \o tokenizeDotUnescaped(slice(pattern, 3 + n2))
           ELSE IF n2 > 0 /\ Len(pattern) > 2 + n2 /\ pattern[3 + n2] = "+"
             THEN <<"(", "?", ":", "/", ".", "+", ")">>
                    \o tokenizeDotUnescaped(slice(pattern, 3 + n2))
           ELSE IF n1 > 0
             THEN <<"(", "[", "^", "/", "]", "+", ")">>
                    \o tokenizeDotUnescaped(slice(pattern, 1 + n1))
           ELSE <<Head(pattern)>> \o tokenizeDotUnescaped(Tail(pattern))

\* The single-pass tokenizer: the regular expression source built from a
\* path template, character by character.
RECURSIVE tokenize(_)
tokenize(pattern) ==
  IF pattern = <<>> THEN <<>>
  ELSE LET n2 == IF startsWith(pattern, <<"/", ":">>) THEN wordRun(slice(pattern, 2)) ELSE 0
           n1 == IF Head(pattern) = ":" THEN wordRun(Tail(pattern)) ELSE 0
           t  == textRun(pattern)
       IN  IF n2 > 0 /\ Len(pattern) > 2 + n2 /\ pattern[3 + n2] = "*"
             THEN <<"(", "?", ":", "/", ".", "*", ")", "?">> \o tokenize(slice(pattern, 3 + n2))
           ELSE IF n2 > 0 /\ Len(pattern) > 2 + n2 /\ pattern[3 + n2] = "+"
             THEN <<"(", "?", ":", "/", ".", "+", ")">> \o tokenize(slice(pattern, 3 + n2))
           ELSE IF n1 > 0
             THEN <<"(", "[", "^", "/", "]", "+", ")">> \o tokenize(slice(pattern, 1 + n1))
           ELSE IF Head(pattern) = "."
             THEN <<"\\", ".">> \o tokenize(Tail(pattern))
           ELSE IF t > 0
             THEN SubSeq(pattern, 1, t) \o tokenize(slice(pattern, t))
           ELSE <<Head(pattern)>> \o tokenize(Tail(pattern))

\* ------------------------------------------------------------------------
\* Safe regular expressions
\* ------------------------------------------------------------------------
\* quantifierAtDepth[k] of the JS array is q[k + 1]; a hole reads as FALSE.
setAt(q, k, v) ==
  IF k < Len(q) THEN [q EXCEPT ![k + 1] = v]
  ELSE q \o [j \in 1..(k - Len(q)) |-> FALSE] \o <<v>>

getAt(q, k) == k < Len(q) /\ q[k + 1]

DigitsOrComma == {"0", "1", "2", "3", "4", "5", "6", "7", "8", "9", ","}

RECURSIVE skipClass(_, _)
skipClass(pattern, i) ==
  IF i <= Len(pattern) /\ pattern[i] # "]"
  THEN skipClass(pattern, IF pattern[i] = "\\" THEN i + 2 ELSE i + 1)
  ELSE i + 1

RECURSIVE skipDigits(_, _)
skipDigits(pattern, j) ==
  IF j <= Len(pattern) /\ pattern[j] \in DigitsOrComma THEN skipDigits(pattern, j + 1) ELSE j

RECURSIVE scanSafe(_, _, _, _)
scanSafe(pattern, i, depth, q) ==
  IF i > Len(pattern) THEN TRUE
  ELSE LET ch == pattern[i] IN
    IF ch = "\\" THEN scanSafe(pattern, i + 2, depth, q)
    ELSE IF ch = "[" THEN scanSafe(pattern, skipClass(pattern, i + 1), depth, q)
    ELSE IF ch = "("
      THEN scanSafe(pattern, i + 1, depth + 1,
                    IF Len(q) <= depth + 1 THEN Append(q, FALSE) ELSE setAt(q, depth + 1, FALSE))
    ELSE IF ch = ")"
      THEN LET hadQ == depth > 0 /\ getAt(q, depth)
               d == IF depth > 0 THEN depth - 1 ELSE depth
               quantified == i + 1 <= Len(pattern) /\ pattern[i + 1] \in {"+", "*", "{"}
           IN  IF quantified /\ hadQ THEN FALSE
               ELSE scanSafe(pattern, i + 1, d,
                             IF quantified /\ d < Len(q) THEN setAt(q, d, TRUE) ELSE q)
    ELSE IF ch \in {"+", "*"}
      THEN scanSafe(pattern, i + 1, depth, IF depth > 0 THEN setAt(q, depth, TRUE) ELSE q)
    ELSE IF ch = "?"
      THEN LET prev == IF i > 1 THEN pattern[i - 1] ELSE "" IN
           scanSafe(pattern, i + 1, depth,
                    IF prev \notin {"+", "*", "?", "}"} /\ depth > 0 THEN setAt(q, depth, TRUE) ELSE q)
    ELSE IF ch = "{"
      THEN LET j == skipDigits(pattern, i + 1) IN
           IF j <= Len(pattern) /\ pattern[j] = "}" /\ j > i + 1
           THEN scanSafe(pattern, j + 1, depth, IF depth > 0 THEN setAt(q, depth, TRUE) ELSE q)
           ELSE scanSafe(pattern, i + 1, depth, q)
    ELSE scanSafe(pattern, i + 1, depth, q)

isSafeRegex(pattern) == scanSafe(pattern, 1, 0, <<>>)


\* ------------------------------------------------------------------------
\* Regular expressions: what new RegExp accepts and what test answers
\* ------------------------------------------------------------------------
Quantifiers == {"*", "+", "?"}

RECURSIVE classEnd(_, _)
classEnd(re, i) ==
  IF i > Len(re) THEN 0
  ELSE IF re[i] = "\\" THEN classEnd(re, i + 2)
  ELSE IF re[i] = "]" THEN i
  ELSE classEnd(re, i + 1)

RECURSIVE groupEnd(_, _, _)
groupEnd(re, i, depth) ==
  IF i > Len(re) THEN 0
  ELSE IF re[i] = "\\" THEN groupEnd(re, i + 2, depth)
  ELSE IF re[i] = "["
    THEN IF classEnd(re, i + 1) = 0 THEN 0 ELSE groupEnd(re, classEnd(re, i + 1) + 1, depth)
  ELSE IF re[i] = "(" THEN groupEnd(re, i + 1, depth + 1)
  ELSE IF re[i] = ")" THEN IF depth = 1 THEN i ELSE groupEnd(re, i + 1, depth - 1)
  ELSE groupEnd(re, i + 1, depth)

\* The index of the last character of the atom that starts at i (0: none).
atomEnd(re, i) ==
  CASE re[i] = "\\" -> IF i + 1 <= Len(re) THEN i + 1 ELSE 0
    [] re[i] = "(" -> groupEnd(re, i + 1, 1)
    [] re[i] = "[" -> classEnd(re, i + 1)
    [] OTHER -> i

\* Where the body of the group at lo starts; 0 for an unknown (? form.
groupBody(re, lo) ==
  IF lo + 1 <= Len(re) /\ re[lo + 1] = "?"
  THEN IF lo + 2 <= Len(re) /\ re[lo + 2] \in {":", "=", "!"} THEN lo + 3 ELSE 0
  ELSE lo + 1

\* The index after the atom at lo..e and its quantifier, if it has one.
afterTerm(re, e, hi) ==
  IF e + 1 <= hi /\ re[e + 1] \in Quantifiers
  THEN IF e + 2 <= hi /\ re[e + 2] = "?" THEN e + 3 ELSE e + 2
  ELSE e + 1

\* new RegExp(re) does not throw, for the part lo..hi of the source.
RECURSIVE validRegex(_, _, _)
validRegex(re, lo, hi) ==
  IF lo > hi THEN TRUE
  ELSE IF re[lo] = "|" THEN validRegex(re, lo + 1, hi)
  ELSE IF re[lo] \in Quantifiers \cup {")"} THEN FALSE
  ELSE LET e == atomEnd(re, lo) IN
       /\ e # 0 /\ e <= hi
       /\ re[lo] = "(" => (groupBody(re, lo) # 0 /\ validRegex(re, groupBody(re, lo), e - 1))
       /\ re[lo] \in {"^", "$"} => ~(e + 1 <= hi /\ re[e + 1] \in Quantifiers)
       /\ validRegex(re, afterTerm(re, e, hi), hi)

RECURSIVE topBar(_, _, _)
topBar(re, lo, hi) ==
  IF lo > hi THEN 0
  ELSE IF re[lo] = "|" THEN lo
  ELSE topBar(re, atomEnd(re, lo) + 1, hi)

classHas(re, lo, e, c) ==
  LET negated == lo + 1 < e /\ re[lo + 1] = "^"
      first == IF negated THEN lo + 2 ELSE lo + 1
      member == \E k \in first..(e - 1) : re[k] = c /\ re[k] # "\\"
  IN  IF negated THEN ~member ELSE member

RECURSIVE matchAlt(_, _, _, _, _)
RECURSIVE matchSeq(_, _, _, _, _)
RECURSIVE matchAtom(_, _, _, _, _)
RECURSIVE matchStar(_, _, _, _, _, _)

\* The positions of s that the part lo..hi of re can reach from position p.
matchAlt(re, lo, hi, s, p) ==
  LET b == topBar(re, lo, hi) IN
  IF b = 0 THEN matchSeq(re, lo, hi, s, p)
  ELSE matchSeq(re, lo, b - 1, s, p) \cup matchAlt(re, b + 1, hi, s, p)

matchSeq(re, lo, hi, s, p) ==
  IF lo > hi THEN {p}
  ELSE LET e == atomEnd(re, lo)
           q == IF e + 1 <= hi /\ re[e + 1] \in Quantifiers THEN re[e + 1] ELSE "1"
           once == matchAtom(re, lo, e, s, p)
           reached == CASE q = "1" -> once
                        [] q = "?" -> {p} \cup once
                        [] q = "*" -> matchStar(re, lo, e, s, {p}, Len(s))
                        [] q = "+" -> matchStar(re, lo, e, s, once, Len(s))
       IN  UNION {matchSeq(re, afterTerm(re, e, hi), hi, s, p2) : p2 \in reached}

matchStar(re, lo, e, s, reached, fuel) ==
  LET more == UNION {matchAtom(re, lo, e, s, p) : p \in reached} \ reached IN
  IF fuel = 0 \/ more = {} THEN reached
  ELSE matchStar(re, lo, e, s, reached \cup more, fuel - 1)

matchAtom(re, lo, e, s, p) ==
  LET step(ok) == IF p < Len(s) /\ ok THEN {p + 1} ELSE {}
  IN  CASE re[lo] = "\\" -> step(p < Len(s) /\ s[p + 1] = re[e])
        [] re[lo] = "." -> step(TRUE)
        [] re[lo] = "^" -> IF p = 0 THEN {p} ELSE {}
        [] re[lo] = "$" -> IF p = Len(s) THEN {p} ELSE {}
        [] re[lo] = "[" -> step(p < Len(s) /\ classHas(re, lo, e, s[p + 1]))
        [] re[lo] = "(" ->
             LET body == groupBody(re, lo)
                 inner == matchAlt(re, body, e - 1, s, p)
             IN  IF body = lo + 3 /\ re[lo + 2] = "!" THEN (IF inner = {} THEN {p} ELSE {})
                 ELSE IF body = lo + 3 /\ re[lo + 2] = "=" THEN (IF inner # {} THEN {p} ELSE {})
                 ELSE inner
        [] OTHER -> step(p < Len(s) /\ s[p + 1] = re[lo])

\* re.test(s)
regexTest(re, s) == \E p \in 0..Len(s) : matchAlt(re, 1, Len(re), s, p) # {}

null == <<"null">>

\* safeRegExp(pattern): the compiled expression (its source), or null.
safeRegExp(pattern) ==
  IF ~isSafeRegex(pattern) THEN null
  ELSE IF ~validRegex(pattern, 1, Len(pattern)) THEN null
  ELSE pattern

anchored(pattern) == <<"^">> \o pattern \o <<"$">>

isRegexPattern(pattern) == includes(pattern, <<"(">>) \/ includes(pattern, <<"\\">>)

\* One call of matchPattern: its result, the expression it executed against
\* the pathname (null: none) and whether the tokenizer ran on the pattern.
matchPatternRun(pathname, pattern) ==
  LET re == IF isRegexPattern(pattern) THEN safeRegExp(anchored(pattern)) ELSE null
      re2 == safeRegExp(anchored(tokenize(pattern)))
  IN  IF re # null
      THEN [result |-> regexTest(re, pathname), executed |-> re, tokenized |-> FALSE]
      ELSE IF re2 # null
      THEN [result |-> regexTest(re2, pathname), executed |-> re2, tokenized |-> TRUE]
      ELSE [result |-> pathname = pattern, executed |-> null, tokenized |-> TRUE]

matchPattern(pathname, pattern) == matchPatternRun(pathname, pattern).result

\* A matcher config: undefined, a string, or an array whose items are
\* strings, objects with a source, or something else.
NoMatcher == [kind |-> "undefined", items |-> <<>>]

stringMatcher(pattern) == [kind |-> "string", items |-> <<[kind |-> "string", source |-> pattern]>>]

arrayMatcher(items) == [kind |-> "array", items |-> items]

\* !matcher
isFalsyMatcher(matcher) ==
  \/ matcher.kind = "undefined"
  \/ matcher.kind = "string" /\ matcher.items[1].source = <<>>

\* A matchesMiddleware that ignores the matcher objects of an array.
matchesMiddlewareStringsOnly(pathname, matcher) ==
  IF isFalsyMatcher(matcher) THEN TRUE
  ELSE \E i \in 1..Len(matcher.items) :
         /\ matcher.items[i].kind = "string"
         /\ matchPattern(pathname, matcher.items[i].source)

matchesMiddleware(pathname, matcher) ==
  IF isFalsyMatcher(matcher) THEN TRUE
  ELSE \E i \in 1..Len(matcher.items) :
         /\ matcher.items[i].kind \in {"string", "object"}
         /\ matchPattern(pathname, matcher.items[i].source)

\* ------------------------------------------------------------------------
\* Headers
\* ------------------------------------------------------------------------
\* A header name is a sequence of name units, so that prefix tests and
\* slicing work as on strings.  A header value is a sequence of units.
\* A Headers object maps every name to the list of values appended under
\* it (empty: the header is absent).
XMiddlewareNext == <<"x-middleware-", "next">>
XMiddlewareRewrite == <<"x-middleware-", "rewrite">>
XMiddlewareOverride == <<"x-middleware-", "override-headers">>
XMiddlewareRequestFoo == <<"x-middleware-", "request-", "x-foo">>
SetCookie == <<"set-cookie">>
XCustom == <<"x-custom">>
Location == <<"location">>
XFoo == <<"x-foo">>

HeaderNames == {XMiddlewareNext, XMiddlewareRewrite, XMiddlewareOverride,
                XMiddlewareRequestFoo, SetCookie, XCustom, Location, XFoo}

EmptyHeaders == [n \in HeaderNames |-> <<>>]

RECURSIVE combine(_)
combine(values) ==
  IF Len(values) = 1 THEN Head(values)
  ELSE Head(values) \o <<", ">> \o combine(Tail(values))

\* The values iteration (for..of, forEach) yields under one name: each
\* Set-Cookie value on its own, every other name's values combined.
entryValues(h, n) ==
  IF h[n] = <<>> THEN <<>>
  ELSE IF n = SetCookie THEN h[n]
  ELSE <<combine(h[n])>>

headersGet(h, n) == IF h[n] = <<>> THEN None ELSE combine(h[n])

\* for (const [key, value] of headers) record[key] = value
assignEntries(record, h) ==
  [n \in HeaderNames |->
     LET vs == entryValues(h, n) IN
     IF vs = <<>> THEN record[n] ELSE <<vs[Len(vs)]>>]

\* for (const [key, value] of headers) if (key not in skip) target.append(key, value)
appendEntriesExcept(h, skip) ==
  [n \in HeaderNames |-> IF n \in skip THEN <<>> ELSE entryValues(h, n)]

hasKeys(record) == \E n \in HeaderNames : record[n] # <<>>

NoResponse == [status |-> 0, headers |-> EmptyHeaders, body |-> "none"]

newResponse(body, status, headers) == [status |-> status, headers |-> headers, body |-> body]

\* ------------------------------------------------------------------------
\* runMiddleware
\* ------------------------------------------------------------------------
NoHeadersObject == [defined |-> FALSE, entries |-> EmptyHeaders]

MiddlewareResult(cont, redirectUrl, redirectStatus, rewriteUrl, rewriteStatus, responseHeaders, response) ==
  [continue |-> cont, redirectUrl |-> redirectUrl, redirectStatus |-> redirectStatus,
   rewriteUrl |-> rewriteUrl, rewriteStatus |-> rewriteStatus,
   responseHeaders |-> responseHeaders, response |-> response]

\* process.env.NODE_ENV; "undefined" when it is not set.
NodeEnvs == {"production", "development", "test", "undefined"}

\* e?.message of what the handler threw.
ErrorMessages == {"boom", "secret"}

\* "Middleware Error: " + (e?.message ?? String(e))
middlewareErrorText(e) ==
  CASE e = "boom" -> "Middleware Error: boom"
    [] e = "secret" -> "Middleware Error: secret"

\* A catch block that lets the request through.
middlewareErrorFailsOpen(nodeEnv, e) ==
  MiddlewareResult(TRUE, None, 0, None, 0, NoHeadersObject, NoResponse)

\* A catch block that lets the request through and still carries the 500.
middlewareErrorContinuesWithResponse(nodeEnv, e) ==
  MiddlewareResult(TRUE, None, 0, None, 0, NoHeadersObject,
                   newResponse("Internal Server Error", 500, EmptyHeaders))

\* What the catch block of the handler call returns when the handler
\* failed with e.
middlewareErrorResult(nodeEnv, e) ==
  LET message == IF nodeEnv = "production" THEN "Internal Server Error"
                 ELSE middlewareErrorText(e)
  IN  MiddlewareResult(FALSE, None, 0, None, 0, NoHeadersObject,
                       newResponse(message, 500, EmptyHeaders))

\* The first unit of an absolute rewrite target: scheme and host.
Origin == "https://o"

RECURSIVE dirname(_)
dirname(p) == IF p = <<>> \/ p[Len(p)] = "/" THEN p ELSE dirname(SubSeq(p, 1, Len(p) - 1))

\* new URL(rewriteUrl, request.url).pathname, for a request URL with
\* pathname `pathname` and a rewrite target without dot segments or query:
\* an absolute URL gives its own path, an absolute path itself, a relative
\* one is resolved against the directory of the request path.
resolveUrlPathname(rewriteUrl, pathname) ==
  IF Head(rewriteUrl) = Origin
    THEN IF Len(rewriteUrl) = 1 THEN <<"/">> ELSE replaceAllBackslash(Tail(rewriteUrl))
  ELSE IF Head(rewriteUrl) \in {"/", "\\"} THEN replaceAllBackslash(rewriteUrl)
  ELSE dirname(pathname) \o replaceAllBackslash(rewriteUrl)

\* if (value): a header that is absent (null) or empty is falsy.
truthy(value) == value # None /\ value # <<>>

\* A classification that looks for the rewrite header before the redirect.
interpretResponseRewriteFirst(response, pathname) ==
  IF headersGet(response.headers, XMiddlewareNext) = <<"1">>
  THEN MiddlewareResult(TRUE, None, 0, None, 0,
         [defined |-> TRUE,
          entries |-> appendEntriesExcept(response.headers, {XMiddlewareNext, XMiddlewareRewrite})],
         NoResponse)
  ELSE IF truthy(headersGet(response.headers, XMiddlewareRewrite))
  THEN MiddlewareResult(TRUE, None, 0,
         resolveUrlPathname(headersGet(response.headers, XMiddlewareRewrite), pathname),
         IF response.status # 200 THEN response.status ELSE 0,
         [defined |-> TRUE,
          entries |-> appendEntriesExcept(response.headers, {XMiddlewareRewrite})],
         NoResponse)
  ELSE IF response.status >= 300 /\ response.status < 400
          /\ truthy(headersGet(response.headers, Location))
  THEN MiddlewareResult(FALSE, headersGet(response.headers, Location), response.status,
                        None, 0, NoHeadersObject, NoResponse)
  ELSE MiddlewareResult(FALSE, None, 0, None, 0, NoHeadersObject, response)

\* The classification of the handler's response, for a request whose URL
\* has pathname `pathname`.
interpretResponse(response, pathname) ==
  IF headersGet(response.headers, XMiddlewareNext) = <<"1">>
  THEN MiddlewareResult(TRUE, None, 0, None, 0,
         [defined |-> TRUE,
          entries |-> appendEntriesExcept(response.headers, {XMiddlewareNext, XMiddlewareRewrite})],
         NoResponse)
  ELSE IF response.status >= 300 /\ response.status < 400
          /\ truthy(headersGet(response.headers, Location))
  THEN MiddlewareResult(FALSE, headersGet(response.headers, Location), response.status,
                        None, 0, NoHeadersObject, NoResponse)
  ELSE IF truthy(headersGet(response.headers, XMiddlewareRewrite))
  THEN MiddlewareResult(TRUE, None, 0,
         resolveUrlPathname(headersGet(response.headers, XMiddlewareRewrite), pathname),
         IF response.status # 200 THEN response.status ELSE 0,
         [defined |-> TRUE,
          entries |-> appendEntriesExcept(response.headers, {XMiddlewareRewrite})],
         NoResponse)
  ELSE MiddlewareResult(FALSE, None, 0, None, 0, NoHeadersObject, response)

\* A handler request that is never rebuilt on the normalized path.
handlerPathnameRaw(pathname, normalizedPathname) == pathname

\* The pathname of the request handed to the handler.
handlerPathname(pathname, normalizedPathname) ==
  IF normalizedPathname # pathname THEN setUrlPathname(normalizedPathname) ELSE pathname

\* What a module exports under a name: a function, nothing, or a value
\* that is not callable.
ExportKinds == {"function", "undefined", "string"}

Error == "Error"

\* a ?? b
nullish(a, b) == IF a = "undefined" THEN b ELSE a

\* A resolution that takes any callable export, whatever the file kind.
resolveAnyCallableExport(mod) ==
  IF \E name \in DOMAIN mod.exports : mod.exports[name] = "function"
  THEN "function" ELSE Error

\* resolveMiddlewareHandler(mod, filePath): the handler, or the Error thrown.
resolveMiddlewareHandler(mod) ==
  LET handler == IF mod.isProxy THEN nullish(mod.exports.proxy, mod.exports.default)
                 ELSE nullish(mod.exports.middleware, mod.exports.default)
  IN  IF handler # "function" THEN Error ELSE handler

\* No MiddlewareResult: the call ended with an exception.
NoResult == MiddlewareResult(FALSE, None, 0, None, 0, NoHeadersObject, NoResponse)

\* A runMiddleware that runs the handler whatever the matcher says.
skipsHandlerNever(normalizedPathname, matcher) == FALSE

\* if (!matchesMiddleware(normalizedPathname, matcher)) return { continue: true }
skipsHandler(normalizedPathname, matcher) == ~matchesMiddleware(normalizedPathname, matcher)

\* runMiddleware(request) for a request with URL pathname `pathname` and a
\* loaded module `mod` (its exports, its config.matcher and what its
\* handler does): the result, whether the call threw, whether the handler
\* was called and how many times, and the pathname it saw, under
\* NODE_ENV = nodeEnv.
runMiddlewareIn(nodeEnv, pathname, mod) ==
  LET decodedPathname == decodeURIComponent(pathname)
      normalizedPathname == normalizePath(decodedPathname)
      notCalled(result) == [result |-> result, called |-> FALSE, saw |-> None,
                            matched |-> FALSE, threw |-> FALSE, handlerCalls |-> 0]
      called(result) == [result |-> result, called |-> TRUE, matched |-> TRUE,
                         saw |-> handlerPathname(pathname, normalizedPathname),
                         threw |-> FALSE, handlerCalls |-> 1]
  IN  IF resolveMiddlewareHandler(mod) = Error
      THEN [result |-> NoResult, called |-> FALSE, saw |-> None,
            matched |-> FALSE, threw |-> TRUE, handlerCalls |-> 0]
      ELSE IF decodedPathname = URIError
      THEN notCalled(MiddlewareResult(FALSE, None, 0, None, 0, NoHeadersObject,
                                      newResponse("Bad Request", 400, EmptyHeaders)))
      ELSE IF skipsHandler(normalizedPathname, mod.matcher)
      THEN notCalled(MiddlewareResult(TRUE, None, 0, None, 0, NoHeadersObject, NoResponse))
      ELSE IF mod.handler.kind \in {"throw", "reject"}
      THEN called(middlewareErrorResult(nodeEnv, mod.handler.error))
      ELSE IF mod.handler.kind = "undefined"
      THEN called(MiddlewareResult(TRUE, None, 0, None, 0, NoHeadersObject, NoResponse))
      ELSE called(interpretResponse(mod.handler.response, pathname))

\* runMiddleware as the workers run it: a production build.
runMiddleware(pathname, mod) == runMiddlewareIn("production", pathname, mod)

\* ------------------------------------------------------------------------
\* mergeHeaders
\* ------------------------------------------------------------------------
\* statusOverride 0 stands for undefined.
mergeHeaders(response, extraHeaders, statusOverride) ==
  IF ~hasKeys(extraHeaders) /\ statusOverride = 0 THEN response
  ELSE newResponse(response.body,
                   IF statusOverride # 0 THEN statusOverride ELSE response.status,
                   assignEntries(extraHeaders, response.headers))

\* ------------------------------------------------------------------------
\* Worker entries: inputs
\* ------------------------------------------------------------------------
PagesUnits == {"/", "\\", "a", "api"}
ImagePath == <<"/", "_vinext/image">>
\* "docs" is a whole word and no other unit starts with its first
\* letter, so startsWith(p, basePath) on units is startsWith on characters.
BasePaths == {<<>>, <<"/", "docs">>}

UnderBasePath ==
  {<<>>, <<"/">>, <<"/", "a">>, <<"/", "a", "/">>, <<"/", "/", "a">>, <<"/", "\\", "a">>,
   <<"/", "api">>, <<"/", "api", "/", "a">>, <<"/", "%">>}

PagesPathnames ==
  {urlPathname(t) : t \in SeqsUpTo(PagesUnits, MaxPathLen - 1)}
    \cup {b \o ImagePath : b \in BasePaths}
    \cup {<<"/", "%">>, <<"/", "a", "/", "%">>}
    \cup {<<"/", "docs">> \o p : p \in UnderBasePath}

cookies(k) == [i \in 1..k |-> [j \in 1..i |-> "c"]]

\* The headers of a response built by the user's middleware.
mwResponseHeaders(sentinel, loc, k, custom, override) ==
  [n \in HeaderNames |->
     CASE n = XMiddlewareNext -> IF sentinel = "next" THEN << <<"1">> >> ELSE <<>>
       [] n = XMiddlewareRewrite -> IF sentinel = "rewrite" THEN << <<"/", "api">> >> ELSE <<>>
       [] n = Location -> IF loc THEN << <<"/", "login">> >> ELSE <<>>
       [] n = SetCookie -> cookies(k)
       [] n = XCustom -> IF custom THEN << <<"mw">> >> ELSE <<>>
       [] n = XMiddlewareOverride -> IF override THEN << <<"x-foo">> >> ELSE <<>>
       [] n = XMiddlewareRequestFoo -> IF override THEN << <<"from-middleware">> >> ELSE <<>>
       [] OTHER -> <<>>]

handlerResponse(status, headers) ==
  [kind |-> "response", response |-> newResponse("middleware", status, headers),
   error |-> "none"]

handlerFails(kind) == [kind |-> kind, response |-> NoResponse, error |-> "boom"]

BasicHandlers ==
  {handlerFails("throw"), handlerFails("reject"), handlerFails("undefined"),
   handlerResponse(200, mwResponseHeaders("next", FALSE, 0, FALSE, FALSE)),
   handlerResponse(200, mwResponseHeaders("next", FALSE, 0, TRUE, TRUE)),
   handlerResponse(200, mwResponseHeaders("next", FALSE, MaxCookies, TRUE, FALSE)),
   handlerResponse(200, mwResponseHeaders("rewrite", FALSE, 0, FALSE, FALSE)),
   handlerResponse(307, mwResponseHeaders("none", TRUE, 0, FALSE, FALSE)),
   handlerResponse(403, mwResponseHeaders("none", FALSE, 0, FALSE, FALSE))}

Matchers ==
  {NoMatcher, arrayMatcher(<<[kind |-> "string", source |-> <<"/", "a", "/", ":", "p", "*">>]>>)}

\* The exports of a middleware file that exports `middleware`, and of a
\* file without any export.
MiddlewareExports == [proxy |-> "undefined", middleware |-> "function", default |-> "undefined"]
NoExports == [proxy |-> "undefined", middleware |-> "undefined", default |-> "undefined"]

\* A loaded middleware.ts with config.matcher and an exported handler.
module(matcher, handler) ==
  [defined |-> TRUE, matcher |-> matcher, handler |-> handler,
   exports |-> MiddlewareExports, isProxy |-> FALSE]

\* typeof runMiddleware === "function" is mod.defined.
NoMod == [module(NoMatcher, handlerFails("undefined")) EXCEPT !.defined = FALSE]

BrokenMod == [module(NoMatcher, handlerFails("undefined")) EXCEPT !.exports = NoExports]

Mods(handlers) ==
  {NoMod, BrokenMod} \cup {module(m, h) : m \in Matchers, h \in handlers}

\* What handleApiRoute / renderPage / proxyExternalRequest may answer.
HandlerResponses ==
  {newResponse("handler", 200, EmptyHeaders),
   newResponse("handler", 404, EmptyHeaders),
   newResponse("handler", 200, [EmptyHeaders EXCEPT ![XCustom] = << <<"app">> >>,
                                                   ![SetCookie] = cookies(MaxCookies)])}

\* What matchHeaders / matchRedirect / matchRewrite may answer.
HeaderMatches == {<<>>, <<[key |-> XCustom, value |-> <<"cfg">>]>>}
NoMatch == [matched |-> FALSE]
RedirectMatches ==
  {NoMatch} \cup {[matched |-> TRUE, destination |-> d, permanent |-> p] :
                    d \in {<<"/", "a">>, <<"/", "api">>, <<"/", "docs", "/", "a">>},
                    p \in BOOLEAN}
RewriteMatches ==
  {NoMatch, [matched |-> TRUE, external |-> FALSE, url |-> <<"/", "api">>],
            [matched |-> TRUE, external |-> TRUE, url |-> <<"https://ext">>]}

\* ------------------------------------------------------------------------
\* Request-scoped state: navigation, router and head
\* ------------------------------------------------------------------------
VARIABLES
  heap,     \* the state objects of each store: _fallbackState and one per scope
  scopes,   \* the stores inside whose run() each request is executing
  written,  \* what each request wrote last inside its scopes, field by field
  saw       \* the last read of a scoped request: what it returned

\* The three AsyncLocalStorage instances.
Stores == {"navigation", "router", "head"}

\* Two requests that each run inside their own scopes.
Requests == 1..2

\* Code that runs outside every scope.
Unscoped == 0

Tasks == {Unscoped} \cup Requests

\* The object _fallbackState among the state objects of a store.
Fallback0 == 0

\* interface NavigationState / RouterState / HeadState
Fields(store) ==
  IF store = "navigation" THEN {"serverContext", "serverInsertedHTMLCallbacks"}
  ELSE IF store = "router" THEN {"ssrContext"}
  ELSE {"ssrHeadElements"}

isList(field) == field \in {"serverInsertedHTMLCallbacks", "ssrHeadElements"}

\* The state a scope starts with, and _fallbackState at module load.
fresh(store) == [f \in Fields(store) |-> IF isList(f) THEN <<>> ELSE null]

NoRead == [task |-> Unscoped, store |-> "none", field |-> "none",
           value |-> <<>>, expected |-> <<>>]

IdleScopes ==
  /\ heap = [s \in Stores |-> [h \in {Fallback0} \cup Requests |-> fresh(s)]]
  /\ scopes = [r \in Tasks |-> {}]
  /\ written = [r \in Requests |-> [s \in Stores |-> fresh(s)]]
  /\ saw = NoRead

als == <<heap, scopes, written, saw>>

\* ------------------------------------------------------------------------
\* Worker entries: state
\* ------------------------------------------------------------------------
VARIABLES
  entry,                   \* which worker entry serves the request
  url,                     \* new URL(request.url).pathname
  basePath,                \* vinextConfig.basePath
  mod,                     \* the loaded middleware module
  pc,                      \* the stage about to run
  pathname,                \* let pathname
  resolvedUrl,             \* let resolvedUrl (and resolvedPathname: no query)
  request,                 \* the request passed on: its pathname and headers
  middlewareHeaders,       \* const middlewareHeaders: Record<string, string>
  middlewareRewriteStatus, \* let middlewareRewriteStatus (0: undefined)
  mw,                      \* what runMiddleware returned
  response,                \* let response of the page stage
  result,                  \* the Response fetch() resolved to
  trace,                   \* the stages that ran, in order
  calls,                   \* the handlers invoked, in order
  handed,                  \* the pathnames given to a config matcher or a dispatcher
  pair,                    \* two independent runMiddleware calls
  call                     \* one call of a function: its arguments and what it returned

vars == <<entry, url, basePath, mod, pc, pathname, resolvedUrl, request,
          middlewareHeaders, middlewareRewriteStatus, mw, response, result,
          trace, calls, handed, pair, call, heap, scopes, written, saw>>

config == <<entry, url, basePath, mod, pair, call, als>>

PagesEntries == {"generated", "example"}
AppEntries == {"app", "generatedApp"}

PagesStages == <<"guard", "basePath", "image", "trailingSlash", "reqCtx", "middleware",
                 "unpack", "configHeaders", "redirects", "beforeFiles", "api",
                 "afterFiles", "page", "fallback">>

\* An order in which config redirects run ahead of the middleware.
stageOrderRedirectsFirst(e) ==
  CASE e \in PagesEntries -> <<"guard", "basePath", "trailingSlash", "reqCtx", "redirects",
                               "middleware", "unpack", "configHeaders", "beforeFiles", "api",
                               "afterFiles", "page", "fallback">>
    [] e = "app" -> <<"guard", "normalize", "rsc">>
    [] e = "generatedApp" -> <<"image", "guard", "normalize", "rsc">>

\* The stages of each entry's fetch(), in the order of its code.
stageOrder(e) ==
  CASE e = "generated" -> PagesStages
    [] e = "example" -> <<"guard", "basePath">> \o SubSeq(PagesStages, 4, Len(PagesStages))
    [] e = "app" -> <<"guard", "normalize", "rsc">>
    [] e = "generatedApp" -> <<"image", "guard", "normalize", "rsc">>

stageAfter(e, s) ==
  LET order == stageOrder(e)
      i == CHOOSE k \in 1..Len(order) : order[k] = s
  IN  order[i + 1]

NotRun ==
  [result |-> MiddlewareResult(TRUE, None, 0, None, 0, NoHeadersObject, NoResponse),
   called |-> FALSE, saw |-> None, matched |-> FALSE, threw |-> FALSE,
   handlerCalls |-> 0]

IdlePair == [r \in 1..2 |-> [pathname |-> <<"/">>, done |-> FALSE, out |-> NotRun]]

NoCall == [op |-> "none"]

InitRequest(entries, urls, basePaths, mods) ==
  /\ entry \in entries
  /\ url \in urls
  /\ basePath \in basePaths
  /\ mod \in mods
  /\ pc = Head(stageOrder(entry))
  /\ pathname = url
  /\ resolvedUrl = url
  /\ request = [pathname |-> url, headers |-> [EmptyHeaders EXCEPT ![XFoo] = << <<"client">> >>]]
  /\ middlewareHeaders = EmptyHeaders
  /\ middlewareRewriteStatus = 0
  /\ mw = NotRun
  /\ response = NoResponse
  /\ result = NoResponse
  /\ trace = <<>>
  /\ calls = <<>>
  /\ handed = {}
  /\ pair = IdlePair
  /\ IdleScopes
  /\ call = NoCall

Init ==
  \/ InitRequest(PagesEntries, PagesPathnames, BasePaths, Mods(BasicHandlers))
  \/ InitRequest(AppEntries, Pathnames \cup {ImagePath}, {<<>>}, {NoMod})

\* ------------------------------------------------------------------------
\* Worker entries: stages
\* ------------------------------------------------------------------------
Enter(stage) == pc = stage /\ trace' = Append(trace, stage)

Goto(stage) == pc' = stageAfter(entry, stage) /\ UNCHANGED result

Return(r) == result' = r /\ pc' = "done"

redirectResponse(status, location) ==
  newResponse("null", status, [EmptyHeaders EXCEPT ![Location] = <<location>>])

\* What the catch block around the Pages worker's fetch body returns.
WorkerError == newResponse("Internal Server Error", 500, EmptyHeaders)

\* How a call of a handler fails: it throws before it returns, or the
\* promise it returned rejects.
Failures == {newResponse(how, 0, EmptyHeaders) : how \in {"throws", "rejects"}}

\* fetch() did not resolve: its promise rejected.
Rejection == newResponse("rejected", 0, EmptyHeaders)

\* try { return handler(...) } catch: a throw is caught, the rejection of
\* the returned promise is not, the promise being returned without await.
returnedFailure(failure) == IF failure.body = "throws" THEN WorkerError ELSE Rejection

\* try { await handler(...) } catch: every failure is caught.
awaitedFailure(failure) == WorkerError

\* The calls after `handler` answered or failed.
callsAfter(handler, outcome) ==
  IF outcome \in Failures THEN calls \o <<handler, outcome.body>> ELSE Append(calls, handler)

\* A guard that only knows the bare double slash.
protocolRelativeExact(p) == p = <<"/", "/">>

\* Block protocol-relative URL open redirects.
protocolRelativeGuard(p) == startsWith(replaceAllBackslash(p), <<"/", "/">>)

Guard ==
  /\ Enter("guard")
  /\ IF protocolRelativeGuard(pathname)
     THEN Return(newResponse("404 Not Found", 404, EmptyHeaders))
     ELSE Goto("guard")
  /\ UNCHANGED <<config, pathname, resolvedUrl, request, middlewareHeaders,
                 middlewareRewriteStatus, mw, response, calls, handed>>

stripBasePath(p, base) ==
  IF base # <<>> /\ startsWith(p, base)
  THEN IF slice(p, Len(base)) = <<>> THEN <<"/">> ELSE slice(p, Len(base))
  ELSE p

StripBasePath ==
  /\ Enter("basePath")
  /\ pathname' = stripBasePath(pathname, basePath)
  /\ resolvedUrl' = pathname'
  /\ Goto("basePath")
  /\ UNCHANGED <<config, request, middlewareHeaders, middlewareRewriteStatus, mw,
                 response, calls, handed>>

Image ==
  /\ Enter("image")
  /\ IF pathname = ImagePath
     THEN \E r \in HandlerResponses \cup (IF entry = "generated" THEN Failures ELSE {}) :
            /\ Return(IF r \in Failures THEN returnedFailure(r) ELSE r)
            /\ calls' = callsAfter("handleImageOptimization", r)
     ELSE Goto("image") /\ UNCHANGED calls
  /\ UNCHANGED <<config, pathname, resolvedUrl, request, middlewareHeaders,
                 middlewareRewriteStatus, mw, response, handed>>

\* The 308 of the trailing-slash stage, or NoResponse when the path is kept.
trailingSlashRedirect(p, base, trailingSlash) ==
  LET hasTrailing == endsWith(p, <<"/">>) IN
  IF p # <<"/">> /\ ~startsWith(p, <<"/", "api">>)
  THEN IF trailingSlash /\ ~hasTrailing
       THEN redirectResponse(308, base \o p \o <<"/">>)
       ELSE IF ~trailingSlash /\ hasTrailing
       THEN redirectResponse(308, base \o stripTrailingSlashes(p))
       ELSE NoResponse
  ELSE NoResponse

TrailingSlash ==
  /\ Enter("trailingSlash")
  /\ \E trailingSlash \in BOOLEAN :
       LET r == trailingSlashRedirect(pathname, basePath, trailingSlash) IN
       IF r # NoResponse THEN Return(r) ELSE Goto("trailingSlash")
  /\ UNCHANGED <<config, pathname, resolvedUrl, request, middlewareHeaders,
                 middlewareRewriteStatus, mw, response, calls, handed>>

\* The request rebuilt on the stripped URL, then requestContextFromRequest.
ReqCtx ==
  /\ Enter("reqCtx")
  /\ request' = IF basePath # <<>>
                THEN [request EXCEPT !.pathname = setUrlPathname(pathname)]
                ELSE request
  /\ Goto("reqCtx")
  /\ UNCHANGED <<config, pathname, resolvedUrl, middlewareHeaders,
                 middlewareRewriteStatus, mw, response, calls, handed>>

\* A middleware stage that only honours redirects.
middlewareTerminalRedirectOnly(r) ==
  IF ~r.continue /\ r.redirectUrl # None
  THEN redirectResponse(IF r.redirectStatus # 0 THEN r.redirectStatus ELSE 307, r.redirectUrl)
  ELSE NoResponse

\* The response the middleware stage returns, NoResponse when it goes on.
middlewareTerminal(r) ==
  IF ~r.continue /\ r.redirectUrl # None
  THEN redirectResponse(IF r.redirectStatus # 0 THEN r.redirectStatus ELSE 307, r.redirectUrl)
  ELSE IF ~r.continue /\ r.response # NoResponse
  THEN r.response
  ELSE NoResponse

Middleware ==
  /\ pc = "middleware"
  /\ IF ~mod.defined
     THEN /\ Goto("middleware")
          /\ UNCHANGED <<trace, mw, calls, middlewareHeaders, resolvedUrl,
                         middlewareRewriteStatus>>
     ELSE LET out == runMiddleware(request.pathname, mod)
              r == out.result
          IN  /\ trace' = Append(trace, "middleware")
              /\ mw' = out
              /\ calls' = Append(calls, "runMiddleware")
              /\ IF out.threw
                 THEN /\ Return(WorkerError)
                      /\ UNCHANGED <<middlewareHeaders, resolvedUrl, middlewareRewriteStatus>>
                 ELSE IF middlewareTerminal(r) # NoResponse
                 THEN /\ Return(middlewareTerminal(r))
                      /\ UNCHANGED <<middlewareHeaders, resolvedUrl, middlewareRewriteStatus>>
                 ELSE /\ middlewareHeaders' =
                           IF r.responseHeaders.defined
                           THEN assignEntries(middlewareHeaders, r.responseHeaders.entries)
                           ELSE middlewareHeaders
                      /\ resolvedUrl' = IF r.rewriteUrl # None THEN r.rewriteUrl ELSE resolvedUrl
                      /\ middlewareRewriteStatus' = r.rewriteStatus
                      /\ Goto("middleware")
  /\ UNCHANGED <<config, pathname, request, response, handed>>

mwReqPrefix == <<"x-middleware-", "request-">>

\* mwReqHeaders: the x-middleware-request-<name> entries under their real names.
unpackedRequestHeaders(headers) ==
  [n \in HeaderNames |->
     IF headers[mwReqPrefix \o n] # <<>> THEN headers[mwReqPrefix \o n] ELSE <<>>]

\* middlewareHeaders after the unpacking loop of entry e.
strippedMiddlewareHeaders(e, headers) ==
  [n \in HeaderNames |->
     IF startsWith(n, mwReqPrefix) THEN <<>>
     ELSE IF e = "generated" /\ startsWith(n, <<"x-middleware-">>) THEN <<>>
     ELSE headers[n]]

Unpack ==
  /\ Enter("unpack")
  /\ LET padded == [n \in HeaderNames \cup {mwReqPrefix \o k : k \in HeaderNames} |->
                      IF n \in HeaderNames THEN middlewareHeaders[n] ELSE <<>>]
         mwReqHeaders == unpackedRequestHeaders(padded)
     IN  /\ middlewareHeaders' = strippedMiddlewareHeaders(entry, middlewareHeaders)
         /\ request' = [request EXCEPT !.headers =
                          [n \in HeaderNames |->
                             IF mwReqHeaders[n] # <<>> THEN mwReqHeaders[n] ELSE @[n]]]
  /\ Goto("unpack")
  /\ UNCHANGED <<config, pathname, resolvedUrl, middlewareRewriteStatus, mw, response,
                 calls, handed>>

toLowerCase(key) == IF key = <<"X-Custom">> THEN XCustom ELSE key

RECURSIVE applyConfigHeaders(_, _)
applyConfigHeaders(headers, matched) ==
  IF matched = <<>> THEN headers
  ELSE applyConfigHeaders([headers EXCEPT ![toLowerCase(Head(matched).key)] = <<Head(matched).value>>],
                          Tail(matched))

ConfigHeaders ==
  /\ Enter("configHeaders")
  /\ \E rules \in BOOLEAN :
       \E matched \in (IF rules THEN HeaderMatches ELSE {<<>>}) :
         /\ middlewareHeaders' = applyConfigHeaders(middlewareHeaders, matched)
         /\ handed' = IF rules THEN handed \cup {resolvedUrl} ELSE handed
  /\ Goto("configHeaders")
  /\ UNCHANGED <<config, pathname, resolvedUrl, request, middlewareRewriteStatus, mw,
                 response, calls>>

\* A destination that is never prefixed.
redirectDestinationBare(destination, base) == destination

redirectDestination(destination, base) ==
  IF base # <<>> /\ ~startsWith(destination, base) THEN base \o destination ELSE destination

\* The redirects stage when configRedirects is empty (rules FALSE) or
\* matchRedirect answers `redirect`.
Redirect(rules, redirect) ==
  /\ Enter("redirects")
  /\ handed' = IF rules THEN handed \cup {resolvedUrl} ELSE handed
  /\ IF redirect.matched
     THEN Return(redirectResponse(IF redirect.permanent THEN 308 ELSE 307,
                                  redirectDestination(redirect.destination, basePath)))
     ELSE Goto("redirects")
  /\ UNCHANGED <<config, pathname, resolvedUrl, request, middlewareHeaders,
                 middlewareRewriteStatus, mw, response, calls>>

Redirects ==
  \E rules \in BOOLEAN :
    \E redirect \in (IF rules THEN RedirectMatches ELSE {NoMatch}) : Redirect(rules, redirect)

\* A rewrite phase that takes an external target for an internal one.
isExternalUrlNever(rewritten) == FALSE

\* isExternalUrl(rewritten)
isExternalUrl(rewritten) == rewritten.external

\* One rewrite phase (beforeFiles, afterFiles) when its rule list is empty
\* (rules FALSE) or matchRewrite answers `rewritten`: an external target
\* is proxied, an internal one replaces resolvedUrl.
Rewrite(stage, rules, rewritten) ==
  /\ Enter(stage)
  /\ handed' = IF rules THEN handed \cup {resolvedUrl} ELSE handed
  /\ IF rewritten.matched /\ isExternalUrl(rewritten)
     THEN /\ \E r \in HandlerResponses \cup Failures :
               /\ Return(IF r \in Failures THEN returnedFailure(r) ELSE r)
               /\ calls' = callsAfter("proxyExternalRequest", r)
          /\ UNCHANGED resolvedUrl
     ELSE /\ resolvedUrl' = IF rewritten.matched THEN rewritten.url ELSE resolvedUrl
          /\ Goto(stage)
          /\ UNCHANGED calls
  /\ UNCHANGED <<config, pathname, request, middlewareHeaders, middlewareRewriteStatus,
                 mw, response>>

RewritePhase(stage) ==
  \E rules \in BOOLEAN :
    \E rewritten \in (IF rules THEN RewriteMatches ELSE {NoMatch}) :
      Rewrite(stage, rules, rewritten)

BeforeFiles == RewritePhase("beforeFiles")

AfterFiles == RewritePhase("afterFiles")

isApiPath(p) == startsWith(p, <<"/", "api", "/">>) \/ p = <<"/", "api">>

ApiNotFound == newResponse("404 - API route not found", 404, EmptyHeaders)

\* ApiNotFound as the choice stands for handleApiRoute not being a function.
Api ==
  /\ Enter("api")
  /\ IF isApiPath(resolvedUrl)
     THEN \E r \in HandlerResponses \cup {ApiNotFound} \cup Failures :
            /\ response' = IF r \in Failures THEN response ELSE r
            /\ Return(IF r \in Failures THEN awaitedFailure(r)
                      ELSE mergeHeaders(r, middlewareHeaders, middlewareRewriteStatus))
            /\ calls' = IF r = ApiNotFound THEN calls ELSE callsAfter("handleApiRoute", r)
            /\ handed' = handed \cup {resolvedUrl}
     ELSE Goto("api") /\ UNCHANGED <<calls, handed, response>>
  /\ UNCHANGED <<config, pathname, resolvedUrl, request, middlewareHeaders,
                 middlewareRewriteStatus, mw>>

\* A fallback phase that follows every render.
isNotFoundAlways(r) == TRUE

\* response && response.status === 404
isNotFound(r) == r # NoResponse /\ r.status = 404

\* NoResponse as the choice stands for renderPage not being a function.
Page ==
  /\ Enter("page")
  /\ \E r \in HandlerResponses \cup {NoResponse} \cup Failures :
       /\ response' = IF r \in Failures THEN response ELSE r
       /\ calls' = IF r = NoResponse THEN calls ELSE callsAfter("renderPage", r)
       /\ handed' = IF r = NoResponse THEN handed ELSE handed \cup {resolvedUrl}
       /\ IF r \in Failures
          THEN Return(awaitedFailure(r))
          ELSE IF r = NoResponse
          THEN Return(newResponse("404 - Not found", 404, EmptyHeaders))
          ELSE IF isNotFound(r)
          THEN Goto("page")
          ELSE Return(mergeHeaders(r, middlewareHeaders, middlewareRewriteStatus))
  /\ UNCHANGED <<config, pathname, resolvedUrl, request, middlewareHeaders,
                 middlewareRewriteStatus, mw>>

\* The fallback phase, reached when the page render answered 404, when
\* the fallback list is empty (rules FALSE) or matchRewrite answers
\* `fallbackRewrite`.
FallbackRewrite(rules, fallbackRewrite) ==
  /\ Enter("fallback")
  /\ handed' = IF ~rules THEN handed
               ELSE IF fallbackRewrite.matched /\ ~isExternalUrl(fallbackRewrite)
               THEN handed \cup {resolvedUrl, fallbackRewrite.url}
               ELSE handed \cup {resolvedUrl}
  /\ IF fallbackRewrite.matched /\ isExternalUrl(fallbackRewrite)
     THEN /\ \E r \in HandlerResponses \cup Failures :
               /\ Return(IF r \in Failures THEN returnedFailure(r) ELSE r)
               /\ calls' = callsAfter("proxyExternalRequest", r)
          /\ UNCHANGED response
     ELSE IF fallbackRewrite.matched
     THEN \E r \in HandlerResponses \cup Failures :
            /\ response' = IF r \in Failures THEN response ELSE r
            /\ calls' = callsAfter("renderPage", r)
            /\ Return(IF r \in Failures THEN awaitedFailure(r)
                      ELSE mergeHeaders(r, middlewareHeaders, middlewareRewriteStatus))
     ELSE /\ Return(mergeHeaders(response, middlewareHeaders, middlewareRewriteStatus))
          /\ UNCHANGED <<calls, response>>
  /\ UNCHANGED <<config, pathname, resolvedUrl, request, middlewareHeaders,
                 middlewareRewriteStatus, mw>>

Fallback ==
  \E rules \in BOOLEAN :
    \E fallbackRewrite \in (IF rules THEN RewriteMatches ELSE {NoMatch}) :
      FallbackRewrite(rules, fallbackRewrite)

\* App Router entry: decode and normalise, then rebuild the request.
Normalize ==
  /\ Enter("normalize")
  /\ LET rawPathname == replaceAllBackslash(url)
         decoded == decodeURIComponent(rawPathname)
     IN  IF decoded = URIError
         THEN /\ Return(newResponse("Bad Request", 400, EmptyHeaders))
              /\ UNCHANGED <<pathname, request>>
         ELSE /\ pathname' = normalizePath(decoded)
              /\ request' = IF pathname' # url
                            THEN [request EXCEPT !.pathname = setUrlPathname(pathname')]
                            ELSE request
              /\ Goto("normalize")
  /\ UNCHANGED <<config, resolvedUrl, middlewareHeaders, middlewareRewriteStatus, mw,
                 response, calls, handed>>

\* What rscHandler may answer: a Response, null, or another value.
RscResults == HandlerResponses \cup {newResponse("null", 0, EmptyHeaders),
                                     newResponse("string", 0, EmptyHeaders)}

\* await rscHandler(...) stands outside any try block: a failure of the
\* handler is the failure of fetch.
Rsc ==
  /\ Enter("rsc")
  /\ handed' = handed \cup {request.pathname}
  /\ \E r \in RscResults \cup (IF entry = "app" THEN Failures ELSE {}) :
       /\ calls' = callsAfter("rscHandler", r)
       /\ Return(IF r \in Failures THEN Rejection
                 ELSE IF r.body = "null" THEN newResponse("Not Found", 404, EmptyHeaders)
                 ELSE IF r.body = "string" THEN newResponse("string", 200, EmptyHeaders)
                 ELSE r)
  /\ UNCHANGED <<config, pathname, resolvedUrl, request, middlewareHeaders,
                 middlewareRewriteStatus, mw, response>>

NextPages ==
  \/ Guard \/ StripBasePath \/ Image \/ TrailingSlash \/ ReqCtx \/ Middleware \/ Unpack
  \/ ConfigHeaders \/ Redirects \/ BeforeFiles \/ Api \/ AfterFiles \/ Page \/ Fallback

Next == NextPages \/ Normalize \/ Rsc

Spec == Init /\ [][Next]_vars

\* Requests of a worker without middleware, at and under the base path.
LivePathnames ==
  {<<"/">>, <<"/", "a">>, <<"/", "a", "/">>, <<"/", "api">>, <<"/", "docs">>,
   <<"/", "docs", "/", "a">>, ImagePath}

InitLive ==
  \/ InitRequest(PagesEntries, LivePathnames, BasePaths, {NoMod})
  \/ InitRequest(AppEntries, LivePathnames, {<<>>}, {NoMod})

\* The runtime runs a pending stage: every await of the worker settles.
SpecLive == InitLive /\ [][Next]_vars /\ WF_vars(Next)

\* ------------------------------------------------------------------------
\* Two requests through runMiddleware, side by side
\* ------------------------------------------------------------------------
PairUnits == {"/", "\\", "a", "%61", "%5C", "%20"}

PairPathnames == {urlPathname(t) : t \in SeqsUpTo(PairUnits, MaxPairLen - 1)}

PairMatchers ==
  Matchers \cup {arrayMatcher(<<[kind |-> "string", source |-> <<"/", "a">>],
                                [kind |-> "string", source |-> <<"/", ":", "p">>]>>)}

InitPair ==
  /\ IdleScopes
  /\ pair \in [1..2 -> {[pathname |-> p, done |-> FALSE, out |-> NotRun] : p \in PairPathnames}]
  /\ mod \in {module(m, handlerResponse(200, mwResponseHeaders("next", FALSE, 0, FALSE, FALSE))) :
                m \in PairMatchers}
  /\ entry = "generated"
  /\ url = <<"/">>
  /\ basePath = <<>>
  /\ pc = "idle"
  /\ pathname = url
  /\ resolvedUrl = url
  /\ request = [pathname |-> url, headers |-> EmptyHeaders]
  /\ middlewareHeaders = EmptyHeaders
  /\ middlewareRewriteStatus = 0
  /\ mw = NotRun
  /\ response = NoResponse
  /\ result = NoResponse
  /\ trace = <<>>
  /\ calls = <<>>
  /\ handed = {}
  /\ call = NoCall

RunMiddleware(r) ==
  /\ pc = "idle"
  /\ ~pair[r].done
  /\ pair' = [pair EXCEPT ![r] = [pathname |-> @.pathname, done |-> TRUE,
                                  out |-> runMiddleware(@.pathname, mod)]]
  /\ UNCHANGED <<entry, url, basePath, mod, pc, pathname, resolvedUrl, request,
                 middlewareHeaders, middlewareRewriteStatus, mw, response, result,
                 trace, calls, handed, call, als>>

NextPair == \E r \in 1..2 : RunMiddleware(r)

SpecPair == InitPair /\ [][NextPair]_vars

\* ------------------------------------------------------------------------
\* Single calls of the matching functions
\* ------------------------------------------------------------------------
\* The worker is idle while a function is called on its own.
IdleWorker ==
  /\ entry = "generated"
  /\ url = <<"/">>
  /\ basePath = <<>>
  /\ mod = NoMod
  /\ pc = "idle"
  /\ pathname = url
  /\ resolvedUrl = url
  /\ request = [pathname |-> url, headers |-> EmptyHeaders]
  /\ middlewareHeaders = EmptyHeaders
  /\ middlewareRewriteStatus = 0
  /\ mw = NotRun
  /\ response = NoResponse
  /\ result = NoResponse
  /\ trace = <<>>
  /\ calls = <<>>
  /\ handed = {}
  /\ pair = IdlePair
  /\ IdleScopes

worker == <<entry, url, basePath, mod, pc, pathname, resolvedUrl, request,
            middlewareHeaders, middlewareRewriteStatus, mw, response, result,
            trace, calls, handed, pair, als>>

PatternUnits == {"/", "a", ":", "+", "*", ".", "(", ")", "\\"}

\* Matcher patterns of config.matcher: every short one, and longer ones of
\* the documented kinds.
Patterns ==
  {<<"/">> \o t : t \in SeqsUpTo(PatternUnits, MaxPatternLen - 1)} \cup
  {<<"/", "a", "/", ":", "a">>, <<"/", "a", "/", ":", "a", "+">>,
   <<"/", "a", "/", ":", "a", "*">>, <<"/", "a", "/", ":", "a", "-", "a", "*">>,
   <<"/", "a", ".", "a">>, <<"/", ":", "a", "/", "a">>,
   <<"/", "(", "a", "+", ")", "+">>, <<"(", "/", ":", "a", "+", ")", "+">>,
   <<"/", "(", "(", "?", "!", "a", ")", ".", "*", ")">>,
   <<"/", "(", "a", "|", ".", ")">>, <<"/", "a", "\\", ".", "a">>}

MatchPathUnits == {"/", "a", "."}

MatchPathnames ==
  {<<"/">> \o t : t \in SeqsUpTo(MatchPathUnits, MaxMatchPathLen - 1)} \cup
  {<<"/", "a", "/", "a", "/", "a">>, <<"/", "a", "/", "a", "a">>,
   <<"/", "a", "/", "a", "/">>, <<"/", "a", ".", "a">>, <<"/", "a", "a", "a">>,
   <<"/", "a", "/", "a">>, <<"/", "a", "/", ".">>, <<"/", ".", "a", "/">>}

MatcherItems ==
  {[kind |-> "string", source |-> <<"/", "a">>],
   [kind |-> "string", source |-> <<"/", "a", "/", ":", "a", "*">>],
   [kind |-> "object", source |-> <<"/", ":", "a", "/", "a">>],
   [kind |-> "other", source |-> <<>>]}

MatcherConfigs ==
  {NoMatcher}
    \cup {stringMatcher(pattern) : pattern \in {<<>>, <<"/", "a">>, <<"/", ":", "a">>}}
    \cup {arrayMatcher(items) : items \in SeqsUpTo(MatcherItems, MaxMatcherItems)}

InitMatch ==
  /\ IdleWorker
  /\ call \in {[op |-> "matchPattern", pattern |-> pattern, done |-> FALSE] :
                 pattern \in Patterns}
           \cup {[op |-> "matchesMiddleware", matcher |-> matcher, done |-> FALSE] :
                   matcher \in MatcherConfigs}

\* matchPattern(pathname, pattern) for the pattern of the call and every
\* pathname, the pattern itself among them.
MatchPattern ==
  /\ call.op = "matchPattern"
  /\ ~call.done
  /\ call' = [op |-> "matchPattern", pattern |-> call.pattern, done |-> TRUE,
               out |-> [p \in MatchPathnames \cup {call.pattern} |->
                          matchPatternRun(p, call.pattern)]]
  /\ UNCHANGED worker

\* matchesMiddleware(pathname, matcher) for the matcher of the call and
\* every pathname.
MatchesMiddleware ==
  /\ call.op = "matchesMiddleware"
  /\ ~call.done
  /\ call' = [op |-> "matchesMiddleware", matcher |-> call.matcher, done |-> TRUE,
               out |-> [p \in MatchPathnames |-> matchesMiddleware(p, call.matcher)]]
  /\ UNCHANGED worker

NextMatch == MatchPattern \/ MatchesMiddleware

SpecMatch == InitMatch /\ [][NextMatch]_vars

\* ------------------------------------------------------------------------
\* One call of runMiddleware
\* ------------------------------------------------------------------------

\* The headers of a handler's response: the three headers the
\* classification reads, each absent (None), empty or set.
classifiedHeaders(next, loc, rewrite) ==
  [n \in HeaderNames |->
     CASE n = XMiddlewareNext -> IF next = None THEN <<>> ELSE <<next>>
       [] n = Location -> IF loc = None THEN <<>> ELSE <<loc>>
       [] n = XMiddlewareRewrite -> IF rewrite = None THEN <<>> ELSE <<rewrite>>
       [] n = XCustom -> << <<"mw">> >>
       [] n = SetCookie -> cookies(MaxCookies)
       [] OTHER -> <<>>]

NextValues == {None, <<"1">>, <<"0">>}
LocationValues == {None, <<>>, <<"/", "login">>}
RewriteValues == {None, <<>>, <<"/", "api">>, <<"b">>, <<Origin, "/", "b">>}
Statuses == {200, 307, 403}

RunHandlers ==
  {handlerFails("throw"), handlerFails("reject"), handlerFails("undefined")}
    \cup {handlerResponse(status, classifiedHeaders(next, loc, rewrite)) :
            status \in Statuses, next \in NextValues,
            loc \in LocationValues, rewrite \in RewriteValues}

RunUrls == {<<"/">>, <<"/", "a", "/", "a">>, <<"/", "a", "/", "/">>, <<"/", "%">>}

InitRun ==
  /\ IdleWorker
  /\ call \in {[op |-> "runMiddleware", url |-> u, mod |-> module(m, h), done |-> FALSE,
                  nodeEnv |-> "production"] :
                 u \in RunUrls, m \in Matchers, h \in RunHandlers}
           \cup {[op |-> "runMiddleware", url |-> <<"/", "a">>, done |-> FALSE,
                   mod |-> module(NoMatcher, [handlerFails(kind) EXCEPT !.error = message]),
                   nodeEnv |-> nodeEnv] :
                   kind \in {"throw", "reject"}, message \in ErrorMessages,
                   nodeEnv \in NodeEnvs}
           \cup {[op |-> "runMiddleware", url |-> u, done |-> FALSE, nodeEnv |-> "production",
                   mod |-> [module(NoMatcher, h) EXCEPT !.exports = e, !.isProxy = isProxy]] :
                   u \in {<<"/">>, <<"/", "%">>},
                   h \in {handlerFails("undefined"), handlerFails("throw")},
                   e \in [proxy : ExportKinds, middleware : ExportKinds, default : ExportKinds],
                   isProxy \in BOOLEAN}

\* runMiddleware(request) for the request and the module of the call.
RunMiddlewareCall ==
  /\ call.op = "runMiddleware"
  /\ ~call.done
  /\ call' = [op |-> "runMiddleware", url |-> call.url, mod |-> call.mod, done |-> TRUE,
               nodeEnv |-> call.nodeEnv,
               out |-> runMiddlewareIn(call.nodeEnv, call.url, call.mod)]
  /\ UNCHANGED worker

NextRun == RunMiddlewareCall

SpecRun == InitRun /\ [][NextRun]_vars

\* ------------------------------------------------------------------------
\* One call of normalizePath
\* ------------------------------------------------------------------------

NormUnits == {"/", ".", "a"}

NormInputs == SeqsUpTo(NormUnits, MaxNormLen)

InitNormalize ==
  /\ IdleWorker
  /\ call \in {[op |-> "normalizePath", pathname |-> p, done |-> FALSE] : p \in NormInputs}

\* normalizePath(pathname): what it returns, which branch returned it, and
\* what the split/resolve/join procedure makes of the same input.
NormalizePath ==
  /\ call.op = "normalizePath"
  /\ ~call.done
  /\ call' = [op |-> "normalizePath", pathname |-> call.pathname, done |-> TRUE,
               out |-> normalizePath(call.pathname),
               again |-> normalizePath(normalizePath(call.pathname)),
               fast |-> isCanonical(call.pathname),
               slow |-> splitResolveJoin(call.pathname)]
  /\ UNCHANGED worker

NextNormalize == NormalizePath

SpecNormalize == InitNormalize /\ [][NextNormalize]_vars

\* ------------------------------------------------------------------------
\* One call of isSafeRegex
\* ------------------------------------------------------------------------

SafeUnits == {"(", ")", "a", "+"}

RegexSources ==
  SeqsUpTo(SafeUnits, MaxRegexLen) \cup
  {<<"(", "a", "{", "1", ",", "2", "}", ")", "+">>,
   <<"(", "a", "+", ")", "{", "1", ",", "2", "}">>,
   <<"(", "[", "+", "]", ")", "+">>,
   <<"(", "\\", "+", ")", "+">>,
   <<"(", "a", "\\", ")", "+", ")", "+">>,
   <<"(", "a", "*", ")", "*">>,
   <<"(", "[", "(", "]", "a", "+", ")", "*">>,
   <<"(", "?", ":", "a", ")", "+">>,
   <<"(", "a", "?", ")", "*">>}

InitSafe ==
  /\ IdleWorker
  /\ call \in {[op |-> "isSafeRegex", pattern |-> pattern, done |-> FALSE] :
                 pattern \in RegexSources}

IsSafeRegex ==
  /\ call.op = "isSafeRegex"
  /\ ~call.done
  /\ call' = [op |-> "isSafeRegex", pattern |-> call.pattern, done |-> TRUE,
               out |-> isSafeRegex(call.pattern)]
  /\ UNCHANGED worker

NextSafe == IsSafeRegex

SpecSafe == InitSafe /\ [][NextSafe]_vars

\* ------------------------------------------------------------------------
\* Properties
\* ------------------------------------------------------------------------
ran(stage) == \E i \in 1..Len(trace) : trace[i] = stage

invoked(handler) == \E i \in 1..Len(calls) : calls[i] = handler

lastStage == IF trace = <<>> THEN "none" ELSE trace[Len(trace)]

handlerFailed == mw.called /\ mod.handler.kind \in {"throw", "reject"}

\* C1: whenever the middleware handler throws or its promise rejects,
\* runMiddleware returns continue = false with a response of status 500;
\* a failed handler never yields continue = true.
C1_HandlerFailureIsTerminal500 ==
  handlerFailed => (~mw.result.continue /\ mw.result.response.status = 500)

C1_Witness ==
  /\ handlerFailed
  /\ mod.handler.kind = "reject"
  /\ pc = "done"
  /\ result.status = 500

\* Two requests whose pathnames decode and normalize to the same string.
decodable(r) == decodeURIComponent(pair[r].pathname) # URIError

normalized(r) == normalizePath(decodeURIComponent(pair[r].pathname))

sameNormalized ==
  /\ pair[1].done /\ pair[2].done
  /\ decodable(1) /\ decodable(2)
  /\ normalized(1) = normalized(2)

isNormalizedPath(p) ==
  /\ ~includes(p, <<"/", "/">>)
  /\ \A i \in 1..Len(split(p)) : split(p)[i] \notin {<<".">>, <<".", ".">>}

\* C3 as stated, leaving aside the middleware runner (which normalizes the
\* pathname it is given): in the Pages Router workers every pathname handed
\* to config header, redirect and rewrite matching and to API and page
\* dispatch is normalized: it has no empty segment and no . or .. segment.
C3_OnlyNormalizedPathsReachMatchers ==
  entry \in PagesEntries => \A p \in handed : isNormalizedPath(p)

protocolRelative == startsWith(replaceAllBackslash(url), <<"/", "/">>)

\* C4: a request whose pathname, with each backslash read as a slash,
\* starts with // is answered 404 by the guard of every worker entry, and
\* no middleware runner, API, page or RSC handler is invoked for it.
C4_ProtocolRelativeIs404 ==
  protocolRelative =>
    /\ calls = <<>>
    /\ \A i \in 1..Len(trace) : trace[i] \in {"guard", "image"}
    /\ pc = "done" => (result.status = 404 /\ lastStage = "guard")

C4_Witness ==
  /\ protocolRelative
  /\ Len(url) > 2
  /\ entry = "generated"
  /\ pc = "done"
  /\ result.status = 404

ClaimedOrder ==
  <<"guard", "basePath", "trailingSlash", "reqCtx", "middleware", "unpack",
    "configHeaders", "redirects", "beforeFiles", "api", "afterFiles", "page", "fallback">>

StageNames ==
  {PagesStages[k] : k \in 1..Len(PagesStages)} \cup {"normalize", "rsc", "idle", "done"}

\* The place of a stage in the claimed order, 0 for a stage it does not name.
claimedIndex ==
  [stage \in StageNames |->
     IF \E k \in 1..Len(ClaimedOrder) : ClaimedOrder[k] = stage
     THEN CHOOSE k \in 1..Len(ClaimedOrder) : ClaimedOrder[k] = stage
     ELSE 0]

\* C5: in a Pages Router worker the stages that run follow the order
\* guard, base-path strip, trailing-slash redirect, request context,
\* middleware, unpacking, config headers, config redirects, beforeFiles,
\* API, afterFiles, page, fallback, and a stage that returned a response
\* is the last one.
C5_StagesRunInOrder ==
  entry \in PagesEntries =>
    /\ \A i, j \in 1..Len(trace) :
         (i < j /\ claimedIndex[trace[i]] # 0 /\ claimedIndex[trace[j]] # 0)
           => claimedIndex[trace[i]] < claimedIndex[trace[j]]
    /\ result # NoResponse => pc = "done"
    /\ \A i \in 1..Len(trace) :
         (pc # "done" /\ claimedIndex[trace[i]] # 0 /\ claimedIndex[pc] # 0)
           => claimedIndex[trace[i]] < claimedIndex[pc]

C5_Witness ==
  /\ entry = "example"
  /\ pc = "done"
  /\ trace = ClaimedOrder

\* C6: when the middleware result has continue = false the Pages Router
\* worker answers at the middleware stage, with a redirect carrying the
\* result's status and Location or with the middleware's own response, and
\* no later stage or handler runs.
C6_TerminalMiddlewareEndsRequest ==
  (entry \in PagesEntries /\ ~mw.threw /\ ~mw.result.continue) =>
    /\ pc = "done"
    /\ lastStage = "middleware"
    /\ calls = <<"runMiddleware">>
    /\ IF mw.result.redirectUrl # None
       THEN /\ result.status = mw.result.redirectStatus
            /\ result.headers[Location] = <<mw.result.redirectUrl>>
       ELSE result = mw.result.response

C6_Witness ==
  /\ entry \in PagesEntries
  /\ ~mw.result.continue
  /\ mw.result.redirectUrl = None
  /\ result.status = 403

isInternalName(n) == startsWith(n, <<"x-middleware-">>)

\* The worker answered with mergeHeaders(response, middlewareHeaders, ...).
answeredByMerge ==
  /\ entry \in PagesEntries
  /\ pc = "done"
  /\ lastStage \in {"api", "page", "fallback"}
  /\ response # NoResponse
  /\ ~invoked("proxyExternalRequest")

\* The worker answered at a stage that follows the middleware stage.
answeredAfterMiddleware ==
  /\ entry \in PagesEntries
  /\ pc = "done"
  /\ invoked("runMiddleware")
  /\ lastStage \in {"redirects", "beforeFiles", "api", "afterFiles", "page", "fallback"}

\* C7 as stated: once the unpacking stage has run, each header the
\* middleware set as x-middleware-request-<name> is header <name> of the
\* forwarded request, and the header set merged into the client response
\* holds no header whose name starts with x-middleware-.
C7_NoInternalHeaderIsMerged ==
  (entry \in PagesEntries /\ ran("unpack")) =>
    /\ \A n \in HeaderNames :
         (mwReqPrefix \o n \in HeaderNames
          /\ mw.result.responseHeaders.entries[mwReqPrefix \o n] # <<>>)
           => request.headers[n] = mw.result.responseHeaders.entries[mwReqPrefix \o n]
    /\ \A n \in HeaderNames : isInternalName(n) => middlewareHeaders[n] = <<>>

\* C8 as stated: the response mergeHeaders returns carries, for every
\* header name of the handler's response, the handler's value, and keeps
\* every header that only one side has.
C8_MergeKeepsBothSides ==
  answeredByMerge =>
    \A n \in HeaderNames :
      result.headers[n] = IF response.headers[n] # <<>> THEN response.headers[n]
                          ELSE middlewareHeaders[n]

\* C9 as stated: every response the Pages Router worker returns from a
\* stage after the middleware stage carries the collected middleware and
\* config headers.
C9_EveryTerminalResponseIsMerged ==
  answeredAfterMiddleware =>
    \A n \in HeaderNames : middlewareHeaders[n] # <<>> => result.headers[n] # <<>>

ConfigHeaderNames == {toLowerCase(m[1].key) : m \in HeaderMatches \ {<<>>}}

values(h, n) == {h[n][i] : i \in 1..Len(h[n])}

\* C10 as stated, for the names no config header rule sets: every value the
\* middleware set on a continue or rewrite response under a name other than
\* the x-middleware- ones is in the merged response unless the handler's
\* response sets that name; each of several Set-Cookie values is there.
C10_MiddlewareHeadersSurvive ==
  (answeredByMerge /\ mw.result.responseHeaders.defined) =>
    \A n \in HeaderNames \ ConfigHeaderNames :
      (~isInternalName(n) /\ response.headers[n] = <<>>)
        => values(mw.result.responseHeaders.entries, n) \subseteq values(result.headers, n)

matched(op) == call.op = op /\ call.done

\* The pattern is a regex pattern whose anchored source the safe compiler
\* rejects as unsafe.
rejectedAsUnsafe(pattern) == isRegexPattern(pattern) /\ ~isSafeRegex(anchored(pattern))

\* C11 as stated: for a pattern the safe regex compiler rejects as unsafe,
\* matchPattern answers false for every pathname and executes no regular
\* expression against it.
C11_UnsafePatternNeverMatches ==
  (matched("matchPattern") /\ rejectedAsUnsafe(call.pattern)) =>
    \A p \in DOMAIN call.out : ~call.out[p].result /\ call.out[p].executed = null

\* C13 as stated: for a pattern with an opening parenthesis or a backslash
\* the result is that of testing the pathname against ^pattern$, and the
\* tokenizer is not applied to the pattern.
C13_RegexPatternIsTestedRaw ==
  (matched("matchPattern") /\ isRegexPattern(call.pattern)) =>
    \A p \in DOMAIN call.out :
      /\ ~call.out[p].tokenized
      /\ call.out[p].result =
           (/\ validRegex(anchored(call.pattern), 1, Len(call.pattern) + 2)
            /\ regexTest(anchored(call.pattern), p))

\* A template: no parenthesis, no backslash, and every + or * is the
\* modifier of a /:name parameter.
RECURSIVE isTemplate(_)
isTemplate(pattern) ==
  IF pattern = <<>> THEN TRUE
  ELSE LET n2 == IF startsWith(pattern, <<"/", ":">>) THEN wordRun(slice(pattern, 2)) ELSE 0 IN
       IF n2 > 0 /\ Len(pattern) > 2 + n2 /\ pattern[3 + n2] \in {"*", "+"}
       THEN isTemplate(slice(pattern, 3 + n2))
       ELSE Head(pattern) \notin {"(", ")", "\\", "+", "*"} /\ isTemplate(Tail(pattern))

\* The reference semantics of a template: :name is a non-empty run without
\* a slash, /:name+ a slash and a non-empty rest, /:name* that or nothing,
\* any other character itself.
RECURSIVE templateMatches(_, _)
templateMatches(pattern, s) ==
  IF pattern = <<>> THEN s = <<>>
  ELSE LET n2 == IF startsWith(pattern, <<"/", ":">>) THEN wordRun(slice(pattern, 2)) ELSE 0
           n1 == IF Head(pattern) = ":" THEN wordRun(Tail(pattern)) ELSE 0
           more == n2 > 0 /\ Len(pattern) > 2 + n2 /\ pattern[3 + n2] = "+"
           any == n2 > 0 /\ Len(pattern) > 2 + n2 /\ pattern[3 + n2] = "*"
       IN  IF more \/ any
           THEN \/ any /\ templateMatches(slice(pattern, 3 + n2), s)
                \/ /\ s # <<>> /\ Head(s) = "/"
                   /\ \E k \in (IF any THEN 1 ELSE 2)..Len(s) :
                        templateMatches(slice(pattern, 3 + n2), slice(s, k))
           ELSE IF n1 > 0
           THEN \E k \in 1..Len(s) :
                  /\ \A j \in 1..k : s[j] # "/"
                  /\ templateMatches(slice(pattern, 1 + n1), slice(s, k))
           ELSE s # <<>> /\ Head(s) = Head(pattern) /\ templateMatches(Tail(pattern), Tail(s))

configuredPatternMatches(matcher, p) ==
  \E i \in 1..Len(matcher.items) :
    /\ matcher.items[i].kind \in {"string", "object"}
    /\ matchPattern(p, matcher.items[i].source)

RECURSIVE syntaxFrom(_, _)
syntaxFrom(re, i) ==
  IF i > Len(re) THEN {}
  ELSE IF re[i] = "\\" THEN syntaxFrom(re, i + 2)
  ELSE IF re[i] = "["
    THEN IF classEnd(re, i + 1) = 0 THEN {} ELSE syntaxFrom(re, classEnd(re, i + 1) + 1)
  ELSE {i} \cup syntaxFrom(re, i + 1)

Digits == {"0", "1", "2"}

\* re[k] starts a quantifier: +, * or {m}, {m,}, {m,n}.
quantifierAt(re, k) ==
  /\ k <= Len(re)
  /\ \/ re[k] \in {"+", "*"}
     \/ /\ re[k] = "{"
        /\ \E j \in (k + 2)..Len(re) :
             /\ re[j] = "}"
             /\ re[k + 1] \in Digits
             /\ \A x \in (k + 1)..(j - 1) : re[x] \in Digits \cup {","}
             /\ Cardinality({x \in (k + 1)..(j - 1) : re[x] = ","}) <= 1

\* Some group of re holds a quantifier, directly or in a nested group, and
\* is itself followed by a quantifier.
nestedQuantifier(re) ==
  LET syn == syntaxFrom(re, 1) IN
  \E i \in syn :
    /\ re[i] = "("
    /\ LET j == groupEnd(re, i + 1, 1) IN
       /\ j # 0
       /\ quantifierAt(re, j + 1)
       /\ \E k \in syn : /\ i + 1 < k /\ k < j /\ quantifierAt(re, k)
                          /\ re[k - 1] \notin {"(", "+", "*"}

\* C12 as stated: isSafeRegex returns false for every pattern with a group
\* that holds a quantified sub-expression, directly or inside a nested
\* group, and whose closing parenthesis is followed by +, * or {m,n}.
C12_NestedQuantifierIsRejected ==
  (matched("isSafeRegex") /\ nestedQuantifier(call.pattern)) => ~call.out

\* C16: the string normalizePath returns starts with a single slash, has no
\* empty segment (//), no . segment and no .. segment, and normalizing it
\* again gives the same string.
C16_NormalizedAndIdempotent ==
  matched("normalizePath") =>
    /\ call.out # <<>> /\ call.out[1] = "/"
    /\ Len(call.out) > 1 => call.out[2] # "/"
    /\ ~includes(call.out, <<"/", "/">>)
    /\ \A i \in 1..Len(split(call.out)) : split(call.out)[i] \notin {<<".">>, <<".", ".">>}
    /\ call.again = call.out

C16_Witness ==
  /\ matched("normalizePath")
  /\ call.pathname = <<"/", ".", ".", "/", "/", "a">>
  /\ ~call.fast
  /\ call.out = <<"/", "a">>

\* C17 as stated: for a pathname that satisfies the fast-path condition the
\* split/resolve/join procedure gives the string the fast path returns.
C17_FastPathIsAnOptimization ==
  (matched("normalizePath") /\ call.fast) => call.slow = call.out

\* C18 as stated, for the inputs that start with a slash and do not
\* normalize to the root: the output ends with a slash iff the input ends
\* with a slash.
C18_TrailingSlashUntouched ==
  (/\ matched("normalizePath")
   /\ startsWith(call.pathname, <<"/">>)
   /\ call.out # <<"/">>) =>
    (endsWith(call.out, <<"/">>) <=> endsWith(call.pathname, <<"/">>))

plainContinue(r) ==
  /\ r.continue
  /\ r.redirectUrl = None /\ r.rewriteUrl = None /\ r.response = NoResponse

redirectShape(r) ==
  /\ ~r.continue
  /\ r.redirectUrl # None /\ r.redirectStatus # 0
  /\ r.response = NoResponse /\ r.rewriteUrl = None

rewriteShape(r) ==
  /\ r.continue
  /\ r.rewriteUrl # None /\ r.responseHeaders.defined
  /\ r.redirectUrl = None /\ r.response = NoResponse

blockShape(r) ==
  /\ ~r.continue
  /\ r.response # NoResponse
  /\ r.redirectUrl = None /\ r.rewriteUrl = None

\* C19: every result of runMiddleware has exactly one of the four shapes
\* plain continue, redirect, rewrite, block.
C19_ExactlyOneShape ==
  (matched("runMiddleware") /\ ~call.out.threw) =>
    LET r == call.out.result IN
    Cardinality({shape \in {"continue", "redirect", "rewrite", "block"} :
                   \/ shape = "continue" /\ plainContinue(r)
                   \/ shape = "redirect" /\ redirectShape(r)
                   \/ shape = "rewrite" /\ rewriteShape(r)
                   \/ shape = "block" /\ blockShape(r)}) = 1

C19_Witness ==
  /\ matched("runMiddleware")
  /\ call.out.called
  /\ call.mod.handler.kind = "response"
  /\ call.mod.handler.response.status = 403
  /\ rewriteShape(call.out.result)
  /\ call.out.result.rewriteStatus = 403

\* The handler of the call was invoked and returned (a response or nothing).
classified == matched("runMiddleware") /\ call.out.called
                /\ call.mod.handler.kind \in {"undefined", "response"}

\* The result the stated order gives; nonEmpty says whether a Location or
\* x-middleware-rewrite header counts only when its value is not empty.
inStatedOrder(nonEmpty) ==
  LET answer == call.mod.handler.response
      r == call.out.result
      has(value) == IF nonEmpty THEN truthy(value) ELSE value # None
      nextValue == headersGet(answer.headers, XMiddlewareNext)
      locationValue == headersGet(answer.headers, Location)
      rewriteValue == headersGet(answer.headers, XMiddlewareRewrite)
  IN  IF call.mod.handler.kind = "undefined" \/ nextValue = <<"1">>
      THEN plainContinue(r)
      ELSE IF answer.status >= 300 /\ answer.status < 400 /\ has(locationValue)
      THEN redirectShape(r) /\ r.redirectUrl = locationValue /\ r.redirectStatus = answer.status
      ELSE IF has(rewriteValue)
      THEN rewriteShape(r) /\ r.rewriteUrl = resolveUrlPathname(rewriteValue, call.url)
      ELSE blockShape(r) /\ r.response = answer

RoutingSentinels == {XMiddlewareNext, XMiddlewareRewrite}

\* C21 as stated: the responseHeaders of a continue or rewrite directive
\* hold neither routing sentinel header and hold every other header of the
\* handler's response with its values.
C21_SentinelsStrippedOthersForwarded ==
  (classified /\ call.out.result.continue /\ call.out.result.responseHeaders.defined) =>
    LET forwarded == call.out.result.responseHeaders.entries
        answer == call.mod.handler.response.headers
    IN  /\ \A n \in RoutingSentinels : forwarded[n] = <<>>
        /\ \A n \in HeaderNames \ RoutingSentinels :
             /\ headersGet(forwarded, n) = headersGet(answer, n)
             /\ n = SetCookie => forwarded[n] = answer[n]

\* The pathname holds a malformed percent-escape.
malformed(p) == \E i \in 1..Len(p) : p[i] = "%"

\* The request ended in the App Router entry with a 400 and without the
\* RSC handler, or went through runMiddleware with a 400 block and without
\* the middleware handler.
badRequest ==
  /\ entry \in AppEntries =>
       (pc = "done" => result.status = 400 /\ ~invoked("rscHandler"))
  /\ invoked("runMiddleware") =>
       /\ ~mw.threw /\ ~mw.called
       /\ blockShape(mw.result) /\ mw.result.response.status = 400

\* C22 as stated: for a request whose pathname has malformed
\* percent-encoding, runMiddleware returns a block with a 400 response and
\* the App Router entry returns a 400 response; no exception, and neither
\* the middleware handler nor the RSC handler is invoked.
C22_MalformedEncodingIs400 == malformed(url) => badRequest

\* C22 amended: the same, for a request that the protocol-relative guard
\* lets through and a middleware module whose handler resolves.
C22_MalformedEncodingIs400AfterGuard ==
  (/\ malformed(url)
   /\ ~protocolRelativeGuard(url)
   /\ resolveMiddlewareHandler(mod) # Error) => badRequest

C22_Witness ==
  /\ malformed(url)
  /\ entry = "generated"
  /\ basePath = <<"/", "docs">>
  /\ startsWith(url, basePath)
  /\ invoked("runMiddleware")
  /\ pc = "done"
  /\ result.status = 400
  /\ mod.handler.kind = "throw"

C22_WitnessApp ==
  /\ malformed(url)
  /\ entry = "app"
  /\ pc = "done"
  /\ result.status = 400
  /\ lastStage = "normalize"

noCallableExport(m) ==
  IF m.isProxy
  THEN m.exports.proxy # "function" /\ m.exports.default # "function"
  ELSE m.exports.middleware # "function" /\ m.exports.default # "function"

\* C23: when the module has no callable export of the expected name,
\* runMiddleware throws: it returns no MiddlewareResult, the matcher is not
\* evaluated and no handler runs.
C23_MissingExportThrows ==
  (matched("runMiddleware") /\ noCallableExport(call.mod)) =>
    /\ call.out.threw
    /\ ~call.out.matched /\ ~call.out.called
    /\ call.out.result = NoResult

C23_Witness ==
  /\ matched("runMiddleware")
  /\ call.mod.isProxy
  /\ call.mod.exports = [proxy |-> "undefined", middleware |-> "function", default |-> "string"]
  /\ call.url = <<"/", "%">>
  /\ call.out.threw

\* C24 as stated: when NODE_ENV is anything other than development, the
\* result for a failed handler is the same whatever the message of the
\* error: the run with any other message gives the same 500 response.
C24_ErrorBodyIsGeneric ==
  (/\ matched("runMiddleware")
   /\ call.out.called
   /\ call.mod.handler.kind \in {"throw", "reject"}
   /\ call.nodeEnv # "development") =>
    \A message \in ErrorMessages :
      runMiddlewareIn(call.nodeEnv, call.url,
                      [call.mod EXCEPT !.handler.error = message]).result = call.out.result

\* C25: when matchRedirect answers a rule, the Pages Router worker returns
\* 308 for a permanent rule and 307 otherwise, with the destination as
\* Location, prefixed by the base path when one is configured and the
\* destination does not start with it; the request ends there, without a
\* rewrite, an API dispatch or a render.
C25_RedirectStatusAndLocation ==
  [][\A redirect \in RedirectMatches :
       (redirect.matched /\ Redirect(TRUE, redirect)) =>
         /\ result'.status = IF redirect.permanent THEN 308 ELSE 307
         /\ result'.headers[Location] =
              << IF basePath # <<>> /\ ~startsWith(redirect.destination, basePath)
                 THEN basePath \o redirect.destination
                 ELSE redirect.destination >>
         /\ pc' = "done"
         /\ calls' = calls
         /\ \A stage \in {"beforeFiles", "api", "afterFiles", "page", "fallback"} :
              \A i \in 1..Len(trace') : trace'[i] # stage]_vars

C25_Witness ==
  /\ pc = "done"
  /\ lastStage = "redirects"
  /\ basePath = <<"/", "docs">>
  /\ mw.result.rewriteUrl # None
  /\ result.status = 308
  /\ result.headers[Location] = << <<"/", "docs", "/", "api">> >>
\* The phases that apply config rewrites ahead of a handler.
RewriteStages == {"beforeFiles", "afterFiles"}

proxied == calls' = Append(calls, "proxyExternalRequest")

\* C26: in each of the phases beforeFiles, afterFiles and fallback, a
\* matched rewrite whose target is external is proxied and the proxy's
\* response is what the worker answers, no stage running after it; a
\* matched rewrite whose target is internal makes the target the URL the
\* following stages resolve (in the fallback phase: the URL the page is
\* rendered against), and the worker goes on without answering a redirect.
C26_ExternalProxiedInternalResolved ==
  [][/\ \A stage \in RewriteStages : \A rewritten \in RewriteMatches :
          (rewritten.matched /\ Rewrite(stage, TRUE, rewritten)) =>
            IF rewritten.external
            THEN /\ pc' = "done"
                 /\ invoked("proxyExternalRequest")'
                 /\ proxied => result' \in HandlerResponses
            ELSE /\ resolvedUrl' = rewritten.url
                 /\ pc' = stageAfter(entry, stage)
                 /\ result' = NoResponse
                 /\ calls' = calls
     /\ \A fallbackRewrite \in RewriteMatches :
          (fallbackRewrite.matched /\ FallbackRewrite(TRUE, fallbackRewrite)) =>
            IF fallbackRewrite.external
            THEN /\ pc' = "done"
                 /\ invoked("proxyExternalRequest")'
                 /\ ~invoked("renderPage")' \/ calls[Len(calls)] = "renderPage"
                 /\ proxied => result' \in HandlerResponses
            ELSE /\ fallbackRewrite.url \in handed'
                 /\ \/ calls' = Append(calls, "renderPage") /\ result'.status \in {200, 404}
                    \/ \E f \in Failures : calls' = calls \o <<"renderPage", f.body>>
     /\ pc = "done" => pc' = "done"]_vars

\* afterFiles resolved the request to an internal target, the page render
\* answered 404 and the fallback phase proxied to an external target.
C26_Witness ==
  /\ entry = "generated"
  /\ lastStage = "fallback"
  /\ calls = <<"runMiddleware", "renderPage", "proxyExternalRequest">>
  /\ mw.result.rewriteUrl = None
  /\ result \in HandlerResponses
  /\ resolvedUrl = <<"/", "api">>
  /\ pathname # <<"/", "api">>
  /\ pc = "done"

\* How many times `handler` was invoked.
invocations(handler) == Cardinality({i \in 1..Len(calls) : calls[i] = handler})

\* C27: the fallback rewrites are consulted only after a first page render
\* that answered 404; the page is rendered again at most once, against the
\* fallback target, so renderPage is invoked at most twice; the second
\* render's response is what the worker answers, a 404 included; and
\* every request is answered.
C27_FallbackOnceAndTerminates ==
  /\ [](invocations("renderPage") <= 2)
  /\ [][\A fallbackRewrite \in RewriteMatches :
          FallbackRewrite(TRUE, fallbackRewrite) =>
            /\ invocations("renderPage") = 1
            /\ calls[Len(calls)] = "renderPage"
            /\ response.status = 404
            /\ pc' = "done"
            /\ calls' = Append(calls, "renderPage") =>
                  /\ fallbackRewrite.url \in handed'
                  /\ result' = mergeHeaders(response', middlewareHeaders,
                                            middlewareRewriteStatus)]_vars
  /\ <>(pc = "done")

\* The second render answered 404 again and that is the answer.
C27_Witness ==
  /\ entry = "generated"
  /\ pc = "done"
  /\ lastStage = "fallback"
  /\ invocations("renderPage") = 2
  /\ calls[Len(calls)] = "renderPage"
  /\ middlewareRewriteStatus = 0
  /\ result.status = 404

\* A stage of the request failed: a handler threw, the promise of one
\* rejected, or runMiddleware threw.
stageFailed == invoked("throws") \/ invoked("rejects") \/ mw.threw

\* C28 as stated: fetch resolves to a response for every request, and a
\* request one of whose stages threw or rejected is answered 500; fetch
\* never rejects.
C28_FetchResolvesAndFailureIs500 ==
  pc = "done" =>
    /\ result # Rejection
    /\ result # NoResponse
    /\ stageFailed => result.status = 500

\* ------------------------------------------------------------------------
\* Interleaved requests over the request-scoped stores
\* ------------------------------------------------------------------------
MaxListLen == 1

\* How many of the three stores the requests of one run use: the stores
\* share no state, each module keeping its own _als and _fallbackState.
MaxStores == 2

storesInUse ==
  UNION {scopes[r] : r \in Requests}
    \cup {store \in Stores : heap[store][Fallback0] # fresh(store)}

\* Everything but the request-scoped state.
idle == <<entry, url, basePath, mod, pc, pathname, resolvedUrl, request,
          middlewareHeaders, middlewareRewriteStatus, mw, response, result,
          trace, calls, handed, pair, call>>

undefined == 0 - 1

\* An AsyncLocalStorage whose getStore() finds no store in any context.
getStoreUndefined(store, t) == undefined

\* _als.getStore() called by task t: the state object given to the run()
\* the task is executing inside, across its awaits, or undefined.
getStore(store, t) == IF store \in scopes[t] THEN t ELSE undefined

\* _getState(): _als.getStore() ?? _fallbackState
getState(store, t) ==
  IF getStore(store, t) # undefined THEN getStore(store, t) ELSE Fallback0

\* What a request or unscoped code writes: its own pathname, its own element.
page(t) == <<IF t = 0 THEN "/page-0" ELSE IF t = 1 THEN "/page-1" ELSE "/page-2">>

InitAls ==
  /\ IdleWorker
  /\ call = NoCall

\* A runWith* whose scope starts from what the fallback state holds.
RunWithFallbackState(r, store) ==
  /\ store \notin scopes[r]
  /\ Cardinality(storesInUse \cup {store}) <= MaxStores
  /\ scopes' = [scopes EXCEPT ![r] = @ \cup {store}]
  /\ heap' = [heap EXCEPT ![store][r] = heap[store][Fallback0]]
  /\ written' = [written EXCEPT ![r][store] = fresh(store)]
  /\ UNCHANGED <<saw, idle>>

\* runWithNavigationContext(fn), runWithRouterState(fn), runWithHeadState(fn):
\* _als.run(state, fn) with a state object of its own.
RunWith(r, store) ==
  /\ store \notin scopes[r]
  /\ Cardinality(storesInUse \cup {store}) <= MaxStores
  /\ scopes' = [scopes EXCEPT ![r] = @ \cup {store}]
  /\ heap' = [heap EXCEPT ![store][r] = fresh(store)]
  /\ written' = [written EXCEPT ![r][store] = fresh(store)]
  /\ UNCHANGED <<saw, idle>>

\* _als.run(state, fn) returns: fn and everything it awaited are done, and
\* the request runs outside the scope again.  The state object of the scope
\* is no longer reachable and leaves the heap; a later scope of the request
\* gets an object of its own.
EndScope(r, store) ==
  /\ store \in scopes[r]
  /\ scopes' = [scopes EXCEPT ![r] = @ \ {store}]
  /\ heap' = [heap EXCEPT ![store][r] = fresh(store)]
  /\ written' = [written EXCEPT ![r][store] = fresh(store)]
  /\ UNCHANGED <<saw, idle>>

\* The write of `value` to a field of the state object the task resolves.
assign(t, store, field, value) ==
  /\ store \in storesInUse
  /\ heap' = [heap EXCEPT ![store][getState(store, t)][field] = value]
  /\ written' = IF t \in Requests /\ store \in scopes[t]
                THEN [written EXCEPT ![t][store][field] = value]
                ELSE written
  /\ heap' # heap
  /\ UNCHANGED <<scopes, saw, idle>>

\* setServerContext(ctx), setSSRContext(ctx)
SetContext(t, store, field, ctx) ==
  /\ ~isList(field)
  /\ assign(t, store, field, ctx)

\* getInsertedHTMLCallbacks().push(cb), getSSRHeadElements().push(el): the
\* getter returns the array of the state object itself.
Push(t, store, field) ==
  /\ isList(field)
  /\ Len(heap[store][getState(store, t)][field]) < MaxListLen
  /\ assign(t, store, field, heap[store][getState(store, t)][field] \o page(t))

\* clearInsertedHTMLCallbacks(), resetSSRHead()
Clear(t, store, field) ==
  /\ isList(field)
  /\ assign(t, store, field, <<>>)

\* getServerContext(), getSSRContext(), getInsertedHTMLCallbacks(),
\* getSSRHeadElements() called by a request inside its scope.
Get(r, store, field) ==
  /\ store \in scopes[r]
  /\ saw' = [task |-> r, store |-> store, field |-> field,
             value |-> heap[store][getState(store, r)][field],
             expected |-> written[r][store][field]]
  /\ saw' # saw
  /\ UNCHANGED <<heap, scopes, written, idle>>

NextAls ==
  \/ \E r \in Requests : \E store \in Stores : RunWith(r, store)
  \/ \E t \in Tasks : \E store \in Stores : \E field \in Fields(store) :
       \E ctx \in {null, page(t)} : SetContext(t, store, field, ctx)
  \/ \E t \in Tasks : \E store \in Stores : \E field \in Fields(store) : Push(t, store, field)
  \/ \E t \in Tasks : \E store \in Stores : \E field \in Fields(store) : Clear(t, store, field)
  \/ \E r \in Requests : \E store \in Stores : \E field \in Fields(store) : Get(r, store, field)

SpecAls == InitAls /\ [][NextAls]_vars

\* One request that enters and leaves its scopes again and again, beside
\* code that runs outside every scope.
ScopedRequests == {1}

NextScopes ==
  \/ \E r \in ScopedRequests : \E store \in Stores : RunWith(r, store)
  \/ \E r \in ScopedRequests : \E store \in Stores : EndScope(r, store)
  \/ \E t \in {Unscoped} \cup ScopedRequests : \E store \in Stores :
       \E field \in Fields(store) : \E ctx \in {null, page(t)} :
         SetContext(t, store, field, ctx)
  \/ \E t \in {Unscoped} \cup ScopedRequests : \E store \in Stores :
       \E field \in Fields(store) : Push(t, store, field)
  \/ \E t \in {Unscoped} \cup ScopedRequests : \E store \in Stores :
       \E field \in Fields(store) : Clear(t, store, field)
  \/ \E r \in ScopedRequests : \E store \in Stores : \E field \in Fields(store) :
       Get(r, store, field)

SpecScopes == InitAls /\ [][NextScopes]_vars

\* C29: however the requests interleave, a read of request-scoped state
\* by a request running inside its own scope returns what that request
\* wrote last inside the scope (the initial state when it wrote nothing),
\* never what another request or unscoped code wrote.
C29_ReadsOwnWrites ==
  /\ saw.store # "none" => saw.value = saw.expected
  /\ \A r \in Requests : \A store \in scopes[r] : \A field \in Fields(store) :
       heap[store][getState(store, r)][field] = written[r][store][field]

\* Request 1 read its own pathname back after request 2 and unscoped code
\* wrote theirs.
C29_Witness ==
  /\ "navigation" \in scopes[1] \cap scopes[2]
  /\ heap["navigation"][2].serverContext = page(2)
  /\ heap["navigation"][Fallback0].serverContext = page(0)
  /\ saw = [task |-> 1, store |-> "navigation", field |-> "serverContext",
            value |-> page(1), expected |-> page(1)]

\* ------------------------------------------------------------------------
\* The route table: pagesRouter and matchRoute
\* ------------------------------------------------------------------------
MaxRoutes == 3

\* The patterns of the pages a directory can hold: /, /about, /about/about,
\* /:slug, /about/:slug, /about/:slug+ and /:slug*, in units.
RoutePatterns ==
  {<<"/">>, <<"/", "a">>, <<"/", "a", "/", "a">>,
   <<"/", ":", "a">>, <<"/", "a", "/", ":", "a">>, <<"/", "a", "/", ":", "a", "+">>,
   <<"/", ":", "a", "*">>}

RoutePathnames ==
  {<<"/">>, <<"/", "a">>, <<"/", "a", "/">>, <<"/", "a", "/", "a">>,
   <<"/", "a", "a">>, <<"/", "a", "/", "a", "/", "a">>,
   <<"/", "?", "a">>, <<"/", "a", "/", "?", "a">>, <<"/", "a", "/", "a", "?", "a">>}

\* route.isDynamic
isDynamic(pattern) == \E i \in 1..Len(pattern) : pattern[i] = ":"

\* The length of the static prefix of a pattern.
staticPrefix(pattern) ==
  IF isDynamic(pattern)
  THEN (CHOOSE i \in 1..Len(pattern) :
          pattern[i] = ":" /\ \A k \in 1..(i - 1) : pattern[k] # ":") - 1
  ELSE Len(pattern)

\* A comparator that looks at the static prefix alone.
sortsBeforeByPrefix(a, b) == staticPrefix(a) > staticPrefix(b)

\* The sort of the route table: a static route before a dynamic one, and
\* of two routes of a kind the one with the longer static prefix first.
sortsBefore(a, b) ==
  \/ ~isDynamic(a) /\ isDynamic(b)
  \/ isDynamic(a) = isDynamic(b) /\ staticPrefix(a) > staticPrefix(b)

\* pagesRouter(dir): the tables the sort can produce for the pages found.
pagesRouter(files) ==
  {t \in [1..Cardinality(files) -> files] :
     /\ \A i, j \in DOMAIN t : i # j => t[i] # t[j]
     /\ \A i, j \in DOMAIN t : i < j => ~sortsBefore(t[j], t[i])}

\* matchRoute strips one trailing slash, the root excepted.
stripTrailingSlash(p) ==
  IF Len(p) > 1 /\ p[Len(p)] = "/" THEN SubSeq(p, 1, Len(p) - 1) ELSE p

\* A matcher that takes the query string for a part of the path.
stripQueryNever(p) == p

\* matchRoute strips the query string: url.split("?")[0]
stripQuery(p) ==
  IF \E i \in 1..Len(p) : p[i] = "?"
  THEN SubSeq(p, 1, (CHOOSE i \in 1..Len(p) :
                       p[i] = "?" /\ \A k \in 1..(i - 1) : p[k] # "?") - 1)
  ELSE p

\* The segments of a pattern or of a path: the parts between its slashes.
segments(p) == SelectSeq(split(p), LAMBDA seg : seg # <<>>)

NoParams == [ok |-> FALSE, params |-> <<>>]

\* The kind of a pattern segment: ":name+", ":name*", ":name" or text.
segmentKind(seg) ==
  IF Head(seg) # ":" THEN "static"
  ELSE IF seg[Len(seg)] = "+" THEN "catchAll"
  ELSE IF seg[Len(seg)] = "*" THEN "optionalCatchAll"
  ELSE "dynamic"

\* The parameters a route's segments take from the segments of a path:
\* a string for :name, the array of the remaining segments for :name+
\* (one at least) and for :name* (none included).
RECURSIVE routeParams(_, _)
routeParams(patternSegs, pathSegs) ==
  IF patternSegs = <<>>
  THEN [ok |-> pathSegs = <<>>, params |-> <<>>]
  ELSE LET kind == segmentKind(Head(patternSegs)) IN
       IF kind = "catchAll"
       THEN [ok |-> Len(pathSegs) >= 1,
             params |-> <<[kind |-> kind, string |-> <<>>, array |-> pathSegs]>>]
       ELSE IF kind = "optionalCatchAll"
       THEN [ok |-> TRUE,
             params |-> <<[kind |-> kind, string |-> <<>>, array |-> pathSegs]>>]
       ELSE IF pathSegs = <<>> THEN NoParams
       ELSE LET rest == routeParams(Tail(patternSegs), Tail(pathSegs)) IN
            IF kind = "dynamic"
            THEN [ok |-> rest.ok,
                  params |-> <<[kind |-> kind, string |-> Head(pathSegs), array |-> <<>>]>>
                               \o rest.params]
            ELSE [ok |-> rest.ok /\ Head(pathSegs) = Head(patternSegs),
                  params |-> rest.params]

\* matchRoute(url, routes): the index of the first route of the table
\* that matches, 0 for null.
matchRoute(p, routes) ==
  LET hits == {i \in DOMAIN routes :
                 matchPattern(stripTrailingSlash(stripQuery(p)), routes[i])}
  IN  IF hits = {} THEN 0 ELSE CHOOSE i \in hits : \A k \in hits : i <= k

\* result.params of matchRoute(url, routes)
matchRouteParams(p, routes) ==
  IF matchRoute(p, routes) = 0 THEN NoParams
  ELSE routeParams(segments(routes[matchRoute(p, routes)]),
                   segments(stripTrailingSlash(stripQuery(p))))

InitRoute ==
  /\ IdleWorker
  /\ call \in {[op |-> "pagesRouter", files |-> files, pathname |-> p, done |-> FALSE] :
                 files \in {f \in SUBSET RoutePatterns : Cardinality(f) \in 1..MaxRoutes},
                 p \in RoutePathnames}

PagesRouter ==
  /\ call.op = "pagesRouter"
  /\ \E routes \in pagesRouter(call.files) :
       call' = [op |-> "matchRoute", files |-> call.files, routes |-> routes,
                pathname |-> call.pathname, done |-> FALSE]
  /\ UNCHANGED worker

MatchRoute ==
  /\ call.op = "matchRoute"
  /\ ~call.done
  /\ call' = [call EXCEPT !.done = TRUE]
               @@ [out |-> matchRoute(call.pathname, call.routes),
                   params |-> matchRouteParams(call.pathname, call.routes)]
  /\ UNCHANGED worker

NextRoute == PagesRouter \/ MatchRoute

SpecRoute == InitRoute /\ [][NextRoute]_vars

\* C30: in every table the builder produces no dynamic route stands ahead
\* of a static one; the matcher answers the first route, in table order,
\* that matches the pathname; so /about is matched to /about in a table
\* that holds both /about and /:slug.
C30_StaticFirstAndFirstMatchWins ==
  (call.op = "matchRoute") =>
    /\ \A i, j \in DOMAIN call.routes :
         (i < j) => ~(isDynamic(call.routes[i]) /\ ~isDynamic(call.routes[j]))
    /\ call.done =>
         /\ call.out # 0 =>
              /\ matchPattern(stripTrailingSlash(stripQuery(call.pathname)), call.routes[call.out])
              /\ \A k \in 1..(call.out - 1) :
                   ~matchPattern(stripTrailingSlash(stripQuery(call.pathname)), call.routes[k])
         /\ call.out = 0 =>
              \A k \in DOMAIN call.routes :
                ~matchPattern(stripTrailingSlash(stripQuery(call.pathname)), call.routes[k])
         /\ ({<<"/", "a">>, <<"/", ":", "a">>} \subseteq call.files
               /\ stripTrailingSlash(stripQuery(call.pathname)) = <<"/", "a">>)
              => call.routes[call.out] = <<"/", "a">>

\* /about/ matched against a table of /:slug*, /:slug and /about.
C30_Witness ==
  /\ matched("matchRoute")
  /\ call.files = {<<"/", "a">>, <<"/", ":", "a">>, <<"/", ":", "a", "*">>}
  /\ call.pathname = <<"/", "a", "/">>
  /\ call.routes[call.out] = <<"/", "a">>

\* The path of a URL: what stands before its first question mark.
pathOf(p) ==
  SubSeq(p, 1, (CHOOSE n \in 0..Len(p) :
                  /\ n = Len(p) \/ p[n + 1] = "?"
                  /\ \A k \in 1..n : p[k] # "?"))

\* The path without one trailing slash, the root being kept.
bare(p) ==
  IF Len(pathOf(p)) > 1 /\ pathOf(p)[Len(pathOf(p))] = "/"
  THEN SubSeq(pathOf(p), 1, Len(pathOf(p)) - 1)
  ELSE pathOf(p)

\* The kind of the last segment of a pattern.
lastKind(pattern) ==
  IF segments(pattern) = <<>> THEN "static"
  ELSE segmentKind(segments(pattern)[Len(segments(pattern))])

\* The segments of the matched path that follow the static part of the
\* matched route.
tailSegments == Len(segments(bare(call.pathname))) - (Len(segments(call.routes[call.out])) - 1)

\* C31: the matcher matches the URL without its query string and without
\* one trailing slash (the root keeps its slash); a match gives a single
\* dynamic segment as a string, a catch-all as an array of one or more
\* segments, an optional catch-all as an array that is empty when no
\* segment is left; a required catch-all never matches zero segments; and
\* null is returned exactly when no route matches.
C31_MatcherStripsAndExtracts ==
  matched("matchRoute") =>
    /\ (call.out = 0) = (\A k \in DOMAIN call.routes : ~matchPattern(bare(call.pathname), call.routes[k]))
    /\ call.out # 0 =>
         /\ matchPattern(bare(call.pathname), call.routes[call.out])
         /\ call.params.ok
         /\ \A i \in DOMAIN call.params.params :
              LET param == call.params.params[i] IN
                /\ param.kind = "dynamic" =>
                     /\ param.string # <<>>
                     /\ param.string \in {segments(bare(call.pathname))[n] :
                                            n \in DOMAIN segments(bare(call.pathname))}
                /\ param.kind = "catchAll" =>
                     /\ Len(param.array) >= 1
                     /\ Len(param.array) = tailSegments
                /\ param.kind = "optionalCatchAll" =>
                     /\ Len(param.array) = tailSegments
                     /\ tailSegments = 0 => param.array = <<>>
    /\ \A k \in DOMAIN call.routes :
         (lastKind(call.routes[k]) = "catchAll"
            /\ Len(segments(bare(call.pathname))) < Len(segments(call.routes[k])))
           => call.out # k

\* The root with a query, matched by /:slug* with no segment left.
C31_Witness ==
  /\ matched("matchRoute")
  /\ call.pathname = <<"/", "?", "a">>
  /\ call.out # 0
  /\ call.routes[call.out] = <<"/", ":", "a", "*">>
  /\ call.params.params[1].array = <<>>

\* /about/about matched by /about/:slug+ with one segment.
C31_WitnessCatchAll ==
  /\ matched("matchRoute")
  /\ call.pathname = <<"/", "a", "/", "a", "?", "a">>
  /\ call.out # 0
  /\ call.routes[call.out] = <<"/", "a", "/", ":", "a", "+">>
  /\ call.params.params[1].array = << <<"a">> >>

\* ------------------------------------------------------------------------
\* One call of handleImageOptimization
\* ------------------------------------------------------------------------
ABSOLUTE_MAX_WIDTH == 3840

DEFAULT_QUALITY == 75

\* The allowed widths of the call: a device size and an image size.
AllowedWidths == {640, 16}

\* parseInt of a query parameter: a number or NaN; an absent or empty
\* parameter falls back to the default before it is parsed.
int(n) == [given |-> TRUE, nan |-> FALSE, n |-> n]
NaN == [given |-> TRUE, nan |-> TRUE, n |-> 0]
NoParam == [given |-> FALSE, nan |-> FALSE, n |-> 0]

parsed(param, default) == IF param.given THEN param ELSE int(default)

WidthParams == {NoParam, NaN, int(0), int(16), int(640), int(641), int(3841), int(0 - 1)}
QualityParams == {NoParam, NaN, int(75), int(0), int(101)}

\* The url parameter: absent, empty, a path, protocol-relative spellings
\* with a slash, a backslash and a tab, an absolute URL, a relative path.
ImageUrls ==
  {None, <<>>, <<"/", "a">>, <<"/", "/", "a">>, <<"/", "\\", "a">>,
   <<"/", "\t", "/", "a">>, <<"https:", "/", "/", "a">>, <<"a">>}

\* The URL parser drops tabs and newlines from its input.
withoutTabs(u) == SelectSeq(u, LAMBDA c : c # "\t")

\* new URL(normalizedUrl, base).origin === base, for a reference that
\* starts with one slash.
sameOrigin(u) == ~startsWith(withoutTabs(u), <<"/", "/">>)

\* parseImageParams(url, allowedWidths): the image URL, or null.
parseImageParams(imageUrl, wParam, qParam) ==
  LET w == parsed(wParam, 0)
      q == parsed(qParam, DEFAULT_QUALITY)
      normalizedUrl == replaceAllBackslash(imageUrl)
  IN  IF imageUrl = None \/ imageUrl = <<>> THEN null
      ELSE IF w.nan \/ w.n < 0 THEN null
      ELSE IF w.n > ABSOLUTE_MAX_WIDTH THEN null
      ELSE IF w.n # 0 /\ w.n \notin AllowedWidths THEN null
      ELSE IF q.nan \/ q.n < 1 \/ q.n > 100 THEN null
      ELSE IF ~startsWith(normalizedUrl, <<"/">>) \/ startsWith(normalizedUrl, <<"/", "/">>)
      THEN null
      ELSE IF ~sameOrigin(normalizedUrl) THEN null
      ELSE normalizedUrl

\* negotiateImageFormat(acceptHeader)
AcceptHeaders == {"null", "image/avif,image/webp", "image/webp", "text/html"}

negotiateImageFormat(acceptHeader) ==
  IF acceptHeader = "null" \/ acceptHeader = "" THEN "image/jpeg"
  ELSE IF acceptHeader = "image/avif,image/webp" THEN "image/avif"
  ELSE IF acceptHeader = "image/webp" THEN "image/webp"
  ELSE "image/jpeg"

IMAGE_CACHE_CONTROL == "public, max-age=31536000, immutable"

IMAGE_CONTENT_SECURITY_POLICY == "script-src 'none'; frame-src 'none'; sandbox;"

SAFE_IMAGE_CONTENT_TYPES ==
  {"image/jpeg", "image/png", "image/gif", "image/webp", "image/avif", "image/x-icon",
   "image/vnd.microsoft.icon", "image/bmp", "image/tiff"}

\* Content-Type values of a source or of a transformed image.
ContentTypes ==
  {"null", "", "image/png", "IMAGE/PNG", "image/png; charset=utf-8", " image/webp ",
   "image/svg+xml", "Image/SVG+XML;x=image/png", "text/html", "image/png,text/html"}

\* contentType.split(";")[0].trim().toLowerCase()
mediaType(contentType) ==
  IF contentType \in {"image/png", "IMAGE/PNG", "image/png; charset=utf-8"} THEN "image/png"
  ELSE IF contentType = " image/webp " THEN "image/webp"
  ELSE IF contentType \in {"image/svg+xml", "Image/SVG+XML;x=image/png"} THEN "image/svg+xml"
  ELSE contentType

\* isSafeImageContentType(contentType)
isSafeImageContentType(contentType) ==
  IF contentType = "null" \/ contentType = "" THEN FALSE
  ELSE mediaType(contentType) \in SAFE_IMAGE_CONTENT_TYPES

ImageHeaderNames ==
  {"Content-Security-Policy", "X-Content-Type-Options", "Content-Disposition",
   "Cache-Control", "Vary", "Content-Type", "X-Source"}

\* new Headers(): headers.get(name) is null for every name.
NoImageHeaders == [n \in ImageHeaderNames |-> "null"]

\* new Response(body, { status }) with a string body: its Content-Type
\* is text/plain.
textResponse(body, status) ==
  [status |-> status, body |-> body,
   headers |-> [NoImageHeaders EXCEPT !["Content-Type"] = "text/plain;charset=UTF-8"]]

\* setImageSecurityHeaders(headers)
setImageSecurityHeaders(headers) ==
  [headers EXCEPT !["Content-Security-Policy"] = IMAGE_CONTENT_SECURITY_POLICY,
                  !["X-Content-Type-Options"] = "nosniff",
                  !["Content-Disposition"] = "inline"]

\* The headers of a 200 response made from the headers of `from`.
imageHeaders(from) ==
  setImageSecurityHeaders([from EXCEPT !["Cache-Control"] = IMAGE_CACHE_CONTROL,
                                       !["Vary"] = "Accept"])

\* What fetchAsset resolves to: source.ok, source.body, its headers.
Sources ==
  {[ok |-> ok, body |-> body,
    headers |-> [NoImageHeaders EXCEPT !["Content-Type"] = ct, !["X-Source"] = "asset",
                                       !["Content-Disposition"] = "attachment"]] :
     ok \in BOOLEAN, body \in {"null", "bytes"}, ct \in ContentTypes}

\* handlers.transformImage: undefined, a handler that throws or rejects,
\* or one that resolves to a response of some status and Content-Type.
Transforms ==
  {[kind |-> "undefined", status |-> 0, contentType |-> "null"],
   [kind |-> "throws", status |-> 0, contentType |-> "null"]}
    \cup {[kind |-> "resolves", status |-> st, contentType |-> ct] :
            st \in {200, 500}, ct \in ContentTypes}

\* handleImageOptimization(request, handlers, allowedWidths)
handleImageOptimization(imageUrl, wParam, qParam, accept, source, transform) ==
  LET params == parseImageParams(imageUrl, wParam, qParam)
      format == negotiateImageFormat(accept)
      sourceContentType == source.headers["Content-Type"]
      transformedHeaders ==
        imageHeaders([NoImageHeaders EXCEPT !["Content-Type"] = transform.contentType])
  IN  IF params = null THEN textResponse("Bad Request", 400)
      ELSE IF ~source.ok \/ source.body = "null" THEN textResponse("Image not found", 404)
      ELSE IF ~isSafeImageContentType(sourceContentType)
      THEN textResponse("The requested resource is not an allowed image type", 400)
      ELSE IF transform.kind = "resolves"
      THEN [status |-> 200, body |-> "transformed",
            headers |-> IF ~isSafeImageContentType(transformedHeaders["Content-Type"])
                        THEN [transformedHeaders EXCEPT !["Content-Type"] = format]
                        ELSE transformedHeaders]
      ELSE [status |-> 200, body |-> source.body, headers |-> imageHeaders(source.headers)]

imageCall(u, w, q, a, src, t) ==
  [op |-> "handleImageOptimization", imageUrl |-> u, w |-> w, q |-> q,
   accept |-> a, source |-> src, transform |-> t, done |-> FALSE]

\* A source that is a PNG image, and a request for it at width 640.
PngSource ==
  [ok |-> TRUE, body |-> "bytes",
   headers |-> [NoImageHeaders EXCEPT !["Content-Type"] = "image/png", !["X-Source"] = "asset",
                                      !["Content-Disposition"] = "attachment"]]

\* Every query against one source, and every source and transform for
\* one well-formed query.
InitImage ==
  /\ IdleWorker
  /\ call \in {imageCall(u, w, q, "null", src, t) :
                 u \in ImageUrls, w \in WidthParams, q \in QualityParams,
                 src \in {PngSource}, t \in {tr \in Transforms : tr.kind = "undefined"}}
           \cup {imageCall(<<"/", "a">>, int(640), NoParam, a, src, t) :
                   a \in AcceptHeaders, src \in Sources, t \in Transforms}

HandleImageOptimization ==
  /\ call.op = "handleImageOptimization"
  /\ ~call.done
  /\ call' = [call EXCEPT !.done = TRUE]
               @@ [out |-> handleImageOptimization(call.imageUrl, call.w, call.q, call.accept,
                                                   call.source, call.transform)]
  /\ UNCHANGED worker

NextImage == HandleImageOptimization

SpecImage == InitImage /\ [][NextImage]_vars

\* C32 as stated: every response of handleImageOptimization, of status
\* 200, 400 or 404, transformed or not, carries the Content-Security-Policy
\* and X-Content-Type-Options: nosniff headers, and every 200 response has
\* a Content-Type of the safe image allowlist.
C32_EveryImageResponseIsHardened ==
  matched("handleImageOptimization") =>
    /\ call.out.status \in {200, 400, 404}
    /\ call.out.headers["Content-Security-Policy"] = IMAGE_CONTENT_SECURITY_POLICY
    /\ call.out.headers["X-Content-Type-Options"] = "nosniff"
    /\ call.out.status = 200 =>
         mediaType(call.out.headers["Content-Type"]) \in SAFE_IMAGE_CONTENT_TYPES

\* ------------------------------------------------------------------------
\* One call of loadDotenv on one env file
\* ------------------------------------------------------------------------
MaxEnvLen == 2

\* The names an env file or the process environment can define, and the
\* names a value can refer to (C is defined nowhere).
EnvKeys == {"A", "B"}
EnvNames == EnvKeys \cup {"C"}

\* The units of a value: text, a reference $NAME, an escaped reference
\* and an escaped dollar.
EnvRefs == {"$A", "$B", "$C"}
EnvUnits == {"x", "\\$A", "\\$"} \cup EnvRefs

refKey(unit) == IF unit = "$A" THEN "A" ELSE IF unit = "$B" THEN "B" ELSE "C"

\* match.slice(1) of an escaped reference, and the later replace of \$.
unescaped(unit) == IF unit = "\\$A" THEN "$A" ELSE IF unit = "\\$" THEN "$" ELSE unit

EnvValues == SeqsUpTo(EnvUnits, MaxEnvLen)

\* if (resolving.has(key)) return context[key] ?? ""
resolvingValue(st, key) == IF st.context[key] = None THEN <<>> ELSE st.context[key]

\* resolveValue(key) and the replace callback over the units of a raw
\* value, left to right; each returns its value and the state of
\* expanded, resolving and context it leaves.
RECURSIVE resolveValue(_, _), replaceRefs(_, _)
resolveValue(key, st) ==
  IF st.expanded[key] # None THEN [value |-> st.expanded[key], st |-> st]
  ELSE IF key \in st.resolving THEN [value |-> resolvingValue(st, key), st |-> st]
  ELSE IF st.context[key] = None THEN [value |-> <<>>, st |-> st]
  ELSE LET r == replaceRefs(st.context[key], [st EXCEPT !.resolving = @ \cup {key}])
       IN  [value |-> r.value,
            st |-> [r.st EXCEPT !.resolving = @ \ {key},
                                !.expanded[key] = r.value,
                                !.context[key] = r.value]]

replaceRefs(raw, st) ==
  IF raw = <<>> THEN [value |-> <<>>, st |-> st]
  ELSE IF Head(raw) \in EnvRefs
  THEN LET a == resolveValue(refKey(Head(raw)), st)
           rest == replaceRefs(Tail(raw), a.st)
       IN  [value |-> a.value \o rest.value, st |-> rest.st]
  ELSE LET rest == replaceRefs(Tail(raw), st)
       IN  [value |-> <<unescaped(Head(raw))>> \o rest.value, st |-> rest.st]

\* for (const key of Object.keys(parsed)) resolveValue(key)
RECURSIVE resolveAll(_, _)
resolveAll(keys, st) ==
  IF keys = <<>> THEN st ELSE resolveAll(Tail(keys), resolveValue(Head(keys), st).st)

\* expandEnv(parsed, processEnv): `keys` is Object.keys(parsed).
expandEnv(keys, parsedEnv, processEnv) ==
  resolveAll(keys,
             [expanded |-> [k \in EnvNames |-> None],
              resolving |-> {},
              context |-> [k \in EnvNames |->
                             IF processEnv[k] # None THEN processEnv[k] ELSE parsedEnv[k]]]).expanded

\* loadDotenv with one env file: processEnv afterwards.
loadDotenv(keys, parsedEnv, processEnv) ==
  [k \in EnvNames |->
     IF processEnv[k] # None THEN processEnv[k]
     ELSE expandEnv(keys, parsedEnv, processEnv)[k]]

\* The orders in which a file can define its names.
keyOrders(parsedEnv) ==
  {ks \in SeqsUpTo(EnvKeys, Cardinality(EnvKeys)) :
     /\ \A i, j \in DOMAIN ks : i # j => ks[i] # ks[j]
     /\ {ks[i] : i \in DOMAIN ks} = {k \in EnvKeys : parsedEnv[k] # None}}

InitEnv ==
  /\ IdleWorker
  /\ \E parsedEnv \in [EnvNames -> EnvValues \cup {None}] :
       \E processEnv \in [EnvNames -> {None, <<"x">>}] :
         \E keys \in keyOrders(parsedEnv) :
           /\ parsedEnv["C"] = None /\ processEnv["C"] = None
           /\ call = [op |-> "loadDotenv", keys |-> keys, parsed |-> parsedEnv,
                      processEnv |-> processEnv, done |-> FALSE]

LoadDotenv ==
  /\ call.op = "loadDotenv"
  /\ ~call.done
  /\ call' = [call EXCEPT !.done = TRUE]
               @@ [out |-> loadDotenv(call.keys, call.parsed, call.processEnv)]
  /\ UNCHANGED worker

NextEnv == LoadDotenv

SpecEnv == InitEnv /\ [][NextEnv]_vars

\* The file defines A as $B and B as $A and the environment defines
\* neither.
cycleWithoutBase ==
  /\ call.parsed["A"] = <<"$B">> /\ call.parsed["B"] = <<"$A">>
  /\ call.processEnv["A"] = None /\ call.processEnv["B"] = None

\* C33 as stated: for an env file whose variables refer to each other in
\* a cycle with no base value (A=$B, B=$A) loadDotenv returns, and each
\* variable of the cycle is defined and is the empty string.
C33_CycleResolvesToEmpty ==
  (call.op = "loadDotenv" /\ cycleWithoutBase) =>
    /\ ENABLED LoadDotenv \/ call.done
    /\ call.done => \A k \in EnvKeys : call.out[k] # None /\ call.out[k] = <<>>

\* C34: runMiddleware invokes the middleware handler at most once per
\* request, and only when the matcher, evaluated against the normalized
\* pathname, matched; when the matcher does not match, the result is a plain
\* continue without response headers and the handler was never invoked.
C34_HandlerRunsOnceAfterMatch ==
  matched("runMiddleware") =>
    LET out == call.out
        canDecode == decodeURIComponent(call.url) # URIError
        normalPath == normalizePath(decodeURIComponent(call.url))
        matcherMatches ==
          canDecode /\ matchesMiddleware(normalPath, call.mod.matcher)
    IN  /\ out.handlerCalls \in {0, 1}
        /\ out.handlerCalls = 1 => matcherMatches
        /\ out.called <=> out.handlerCalls = 1
        /\ (~out.threw /\ canDecode /\ ~matcherMatches) =>
              /\ out.handlerCalls = 0
              /\ plainContinue(out.result)
              /\ ~out.result.responseHeaders.defined

C34_Witness ==
  /\ matched("runMiddleware")
  /\ call.out.handlerCalls = 1
  /\ call.mod.matcher # NoMatcher
  /\ normalizePath(decodeURIComponent(call.url)) # call.url

C34_WitnessNoMatch ==
  /\ matched("runMiddleware")
  /\ ~call.out.threw
  /\ decodeURIComponent(call.url) # URIError
  /\ ~matchesMiddleware(normalizePath(decodeURIComponent(call.url)), call.mod.matcher)
  /\ call.mod.handler.kind = "throw"
  /\ call.out.handlerCalls = 0

\* ------------------------------------------------------------------------
\* The functions inlined into the generated entries
\* ------------------------------------------------------------------------
\* generateNormalizePathCode(style) and generateMiddlewareMatcherCode(style)
\* return JavaScript text.  The style chooses the declaration keywords
\* (const/let or var) and the callback syntax (arrow or function); no
\* declared name is captured by a closure or declared twice, so the text of
\* either style runs the same statements.
Styles == {"modern", "es5"}

\* for (i = 0; i < segments.length; i++) { ... } of __normalizePath, with
\* the JS index i as i + 1 here.
RECURSIVE resolveLoop(_, _, _)
resolveLoop(segs, i, resolved) ==
  IF i > Len(segs) THEN resolved
  ELSE LET seg == segs[i] IN
       IF seg = <<>> \/ seg = <<".">> THEN resolveLoop(segs, i + 1, resolved)
       ELSE IF seg = <<".", ".">>
            THEN resolveLoop(segs, i + 1,
                             IF Len(resolved) = 0 THEN resolved
                             ELSE SubSeq(resolved, 1, Len(resolved) - 1))
            ELSE resolveLoop(segs, i + 1, resolved \o <<seg>>)

__normalizePath(style, path) ==
  IF \/ path = <<"/">>
     \/ /\ Len(path) > 1
        /\ path[1] = "/"
        /\ ~includes(path, <<"/", "/">>)
        /\ ~includes(path, <<"/", ".", "/">>)
        /\ ~includes(path, <<"/", ".", ".", "/">>)
        /\ ~endsWith(path, <<"/", ".">>)
        /\ ~endsWith(path, <<"/", ".", ".">>)
  THEN path
  ELSE <<"/">> \o join(resolveLoop(split(path), 1, <<>>))

\* tokenRe.exec(pattern) at lastIndex = at: the length of tok[0] and which
\* alternative of tokenRe produced it (1, 2, 3: the groups; 4: a dot;
\* 5: literal text or any other character).
execToken(pattern, at) ==
  LET rest == slice(pattern, at)
      afterSlashColon == IF startsWith(rest, <<"/", ":">>) THEN wordRun(slice(rest, 2)) ELSE 0
      afterColon == IF rest[1] = ":" THEN wordRun(slice(rest, 1)) ELSE 0
      follows(n, ch) == n > 0 /\ Len(rest) >= n + 3 /\ rest[n + 3] = ch
  IN  IF follows(afterSlashColon, "*") THEN [length |-> afterSlashColon + 3, alternative |-> 1]
      ELSE IF follows(afterSlashColon, "+") THEN [length |-> afterSlashColon + 3, alternative |-> 2]
      ELSE IF afterColon > 0 THEN [length |-> afterColon + 1, alternative |-> 3]
      ELSE IF rest[1] = "." THEN [length |-> 1, alternative |-> 4]
      ELSE IF textRun(rest) > 0 THEN [length |-> textRun(rest), alternative |-> 5]
      ELSE [length |-> 1, alternative |-> 5]

\* while ((tok = tokenRe.exec(pattern)) !== null) { regexStr += ... }
RECURSIVE tokenLoop(_, _, _)
tokenLoop(pattern, at, regexStr) ==
  IF at >= Len(pattern) THEN regexStr
  ELSE LET tok == execToken(pattern, at)
           piece == CASE tok.alternative = 1 -> <<"(", "?", ":", "/", ".", "*", ")", "?">>
                      [] tok.alternative = 2 -> <<"(", "?", ":", "/", ".", "+", ")">>
                      [] tok.alternative = 3 -> <<"(", "[", "^", "/", "]", "+", ")">>
                      [] tok.alternative = 4 -> <<"\\", ".">>
                      [] OTHER -> SubSeq(pattern, at + 1, at + tok.length)
       IN  tokenLoop(pattern, at + tok.length, regexStr \o piece)

\* An inlined matcher without the guard that sends a regex pattern to
\* RegExp before the tokenizer.
isInlinedRegexPatternNever(pattern) == FALSE

\* pattern.includes("(") || pattern.includes("\\") of matchMiddlewarePattern
isInlinedRegexPattern(pattern) == includes(pattern, <<"(">>) \/ includes(pattern, <<"\\">>)

matchMiddlewarePattern(style, path, pattern) ==
  LET re == IF isInlinedRegexPattern(pattern)
            THEN safeRegExp(<<"^">> \o pattern \o <<"$">>) ELSE null
      re2 == safeRegExp(<<"^">> \o tokenLoop(pattern, 0, <<>>) \o <<"$">>)
  IN  IF re # null THEN regexTest(re, path)
      ELSE IF re2 # null THEN regexTest(re2, path)
      ELSE path = pattern

\* patterns of the inlined matchesMiddleware: the sources pushed for a
\* string matcher or for the string and object items of an array.
RECURSIVE pushPatterns(_, _)
pushPatterns(items, patterns) ==
  IF items = <<>> THEN patterns
  ELSE pushPatterns(Tail(items),
                    IF Head(items).kind \in {"string", "object"}
                    THEN Append(patterns, Head(items).source) ELSE patterns)

matchesMiddlewareInlined(style, path, matcher) ==
  IF matcher.kind = "undefined" \/ (matcher.kind = "string" /\ matcher.items[1].source = <<>>)
  THEN TRUE
  ELSE LET patterns == pushPatterns(matcher.items, <<>>) IN
       \E i \in 1..Len(patterns) : matchMiddlewarePattern(style, path, patterns[i])

InitInlined ==
  /\ IdleWorker
  /\ call \in {[op |-> "__normalizePath", style |-> style, pathname |-> p, done |-> FALSE] :
                 style \in Styles, p \in NormInputs}
           \cup {[op |-> "matchMiddlewarePattern", style |-> style, pattern |-> pattern,
                  done |-> FALSE] : style \in Styles, pattern \in Patterns}
           \cup {[op |-> "inlined matchesMiddleware", style |-> style, matcher |-> matcher,
                  done |-> FALSE] : style \in Styles, matcher \in MatcherConfigs}

\* One call of the inlined function and one of the function of the module
\* on the same argument.
InlinedNormalizePath ==
  /\ call.op = "__normalizePath"
  /\ ~call.done
  /\ call' = [call EXCEPT !.done = TRUE] @@
               [inlined |-> __normalizePath(call.style, call.pathname),
                module |-> normalizePath(call.pathname)]
  /\ UNCHANGED worker

InlinedMatchPattern ==
  /\ call.op = "matchMiddlewarePattern"
  /\ ~call.done
  /\ call' = [call EXCEPT !.done = TRUE] @@
               [inlined |-> [p \in MatchPathnames \cup {call.pattern} |->
                               matchMiddlewarePattern(call.style, p, call.pattern)],
                module |-> [p \in MatchPathnames \cup {call.pattern} |->
                              matchPattern(p, call.pattern)]]
  /\ UNCHANGED worker

InlinedMatchesMiddleware ==
  /\ call.op = "inlined matchesMiddleware"
  /\ ~call.done
  /\ call' = [call EXCEPT !.done = TRUE] @@
               [inlined |-> [p \in MatchPathnames |->
                               matchesMiddlewareInlined(call.style, p, call.matcher)],
                module |-> [p \in MatchPathnames |-> matchesMiddleware(p, call.matcher)]]
  /\ UNCHANGED worker

NextInlined == InlinedNormalizePath \/ InlinedMatchPattern \/ InlinedMatchesMiddleware

SpecInlined == InitInlined /\ [][NextInlined]_vars

\* C35: the functions inlined into the generated entries return what the
\* functions of the module return on every input, in both styles:
\* __normalizePath as normalizePath, matchMiddlewarePattern as matchPattern,
\* the inlined matchesMiddleware as matchesMiddleware.
C35_InlinedFunctionsAgreeWithModule ==
  (call.op \in {"__normalizePath", "matchMiddlewarePattern", "inlined matchesMiddleware"}
     /\ call.done)
    => call.inlined = call.module

\* A regex pattern with a dot, a pathname it matches, in the es5 style.
C35_Witness ==
  /\ matched("matchMiddlewarePattern")
  /\ call.style = "es5"
  /\ call.pattern = <<"/", "(", "(", "?", "!", "a", ")", ".", "*", ")">>
  /\ call.inlined[<<"/", ".", "a">>]
  /\ ~call.inlined[<<"/", "a">>]

C35_WitnessNormalize ==
  /\ matched("__normalizePath")
  /\ call.pathname = <<"/", ".", ".", "/", "a", "/">>
  /\ call.inlined = <<"/", "a">>

C35_WitnessMatcher ==
  /\ matched("inlined matchesMiddleware")
  /\ call.matcher.kind = "array"
  /\ \E i \in 1..Len(call.matcher.items) : call.matcher.items[i].kind = "object"
  /\ call.inlined[<<"/", "a", "/", "a">>]

\* ------------------------------------------------------------------------
\* The front of the Pages worker on its own: guard, base path, trailing
\* slash; and the Location of a config redirect
\* ------------------------------------------------------------------------
\* "/docs" followed by a letter is a path beside the base path, not under
\* it.
FrontPathnames ==
  PagesPathnames \cup {<<"/", "docs", "a">>, <<"/", "docs", "a", "/">>,
                       <<"/", "docs", "/", "api", "a">>}

ImageResponse == newResponse("image", 200, EmptyHeaders)

\* One fetch up to the trailing-slash stage: whether the guard answered,
\* the pathname after the base-path stage, and the response of the stages
\* (NoResponse: the request goes on to the later stages).
fetchFront(p, base, trailingSlash) ==
  LET stripped == stripBasePath(p, base) IN
  [guarded |-> protocolRelativeGuard(p),
   stripped |-> stripped,
   response |-> IF protocolRelativeGuard(p) THEN newResponse("404 Not Found", 404, EmptyHeaders)
                ELSE IF stripped = ImagePath THEN ImageResponse
                ELSE trailingSlashRedirect(stripped, base, trailingSlash)]

\* The pathname of the request a client sends when it follows Location.
followed(r) == replaceAllBackslash(r.headers[Location][1])

\* Destinations of config redirects: internal paths, under the base path,
\* beside it, and absolute external URLs.
RedirectDestinations ==
  {<<"/", "a">>, <<"/", "api">>, <<"/", "docs">>, <<"/", "docs", "/", "a">>,
   <<"/", "docs", "a">>, <<"https://", "ext", "/", "a">>, <<"http://", "ext">>}

\* An absolute URL with a scheme.
isAbsoluteUrl(destination) == destination # <<>> /\ destination[1] \in {"https://", "http://"}

InitFront ==
  /\ IdleWorker
  /\ call \in {[op |-> "fetch", pathname |-> p, basePath |-> b, trailingSlash |-> t,
                done |-> FALSE] : p \in FrontPathnames, b \in BasePaths, t \in BOOLEAN}
           \cup {[op |-> "redirect", destination |-> d, basePath |-> b, permanent |-> perm,
                  done |-> FALSE] : d \in RedirectDestinations, b \in BasePaths,
                                    perm \in BOOLEAN}

\* A request through the front of the worker and, when it was answered by
\* the 308 of the trailing-slash stage, the request that follows the
\* redirect.
FetchFront ==
  /\ call.op = "fetch"
  /\ ~call.done
  /\ LET first == fetchFront(call.pathname, call.basePath, call.trailingSlash) IN
     call' = [call EXCEPT !.done = TRUE] @@
               [out |-> first,
                next |-> IF first.response.status = 308
                         THEN fetchFront(followed(first.response), call.basePath,
                                         call.trailingSlash)
                         ELSE first]
  /\ UNCHANGED worker

\* The response of the redirects stage for a matched rule.
RedirectLocation ==
  /\ call.op = "redirect"
  /\ ~call.done
  /\ call' = [call EXCEPT !.done = TRUE] @@
               [out |-> redirectResponse(IF call.permanent THEN 308 ELSE 307,
                                         redirectDestination(call.destination,
                                                             call.basePath))]
  /\ UNCHANGED worker

NextFront == FetchFront \/ RedirectLocation

SpecFront == InitFront /\ [][NextFront]_vars

\* p is the base path or lies under it at a segment boundary.
underBasePath(p, base) == p = base \/ startsWith(p, base \o <<"/">>)

\* C36: after the base-path stage the pathname begins with a slash, and the
\* base path is stripped only when the request path equals the base path or
\* lies under it at a segment boundary.
C36_StrippedAtSegmentBoundary ==
  (matched("fetch") /\ ~call.out.guarded) =>
    /\ startsWith(call.out.stripped, <<"/">>)
    /\ call.out.stripped # call.pathname =>
         (call.basePath # <<>> /\ underBasePath(call.pathname, call.basePath))

\* C37: with a base path configured, a config redirect to an absolute
\* external URL is emitted unchanged as Location, and the base path is
\* prefixed only to internal path destinations not already under it.
C37_ExternalDestinationUnchanged ==
  (matched("redirect") /\ call.basePath # <<>>) =>
    LET location == call.out.headers[Location][1] IN
    /\ isAbsoluteUrl(call.destination) => location = call.destination
    /\ location # call.destination =>
         /\ ~isAbsoluteUrl(call.destination)
         /\ ~underBasePath(call.destination, call.basePath)
         /\ location = call.basePath \o call.destination

\* C38: the paths exempt from trailing-slash normalization are exactly the
\* root and the API paths (/api, /api/...): every other path whose trailing
\* slash disagrees with the configuration receives the 308; and following
\* the redirect never produces a second trailing-slash redirect.
C38_OnlyRootAndApiExempt ==
  (matched("fetch") /\ ~call.out.guarded /\ call.out.stripped # ImagePath) =>
    LET p == call.out.stripped
        exempt == p = <<"/">> \/ isApiPath(p)
        disagrees == endsWith(p, <<"/">>) # call.trailingSlash
    IN  /\ call.out.response.status = 308 <=> (~exempt /\ disagrees)
        /\ call.out.response.status = 308 => call.next.response.status # 308

\* C39: the App Router entry never hands the RSC handler a request whose
\* pathname, percent-decoded and with its backslashes turned into slashes,
\* starts with two slashes; this holds for percent-encoded spellings of
\* the backslash and the slash as well.
C39_RscNeverSeesProtocolRelativePath ==
  (entry = "app" /\ \E i \in 1..Len(trace) : trace[i] = "rsc") =>
    \A p \in handed :
      ~startsWith(replaceAllBackslash(decodeURIComponentLenient(p)), <<"/", "/">>)

\* A set, push, reset or clear of the store by task t.
writes(t, store) ==
  \E field \in Fields(store) :
    \/ \E ctx \in {null, page(t)} : SetContext(t, store, field, ctx)
    \/ Push(t, store, field)
    \/ Clear(t, store, field)

\* C40: every new runWith* scope starts from the empty state (null context,
\* empty lists) whatever earlier scopes and the shared fallback state hold;
\* a set, reset or clear made inside a scope leaves the fallback state of
\* the store unchanged; and the fallback state is resolved, for a read or a
\* write, only by calls made outside every scope of the store.
C40_ScopesStartEmptyFallbackUntouched ==
  [][\A store \in Stores :
       /\ \A r \in Requests :
            /\ (store \notin scopes[r] /\ store \in scopes'[r]) =>
                 heap'[store][r] = fresh(store)
            /\ (store \in scopes[r] /\ writes(r, store)) =>
                 heap'[store][Fallback0] = heap[store][Fallback0]
            /\ store \in scopes[r] => getState(store, r) # Fallback0
       /\ heap'[store][Fallback0] # heap[store][Fallback0] =>
            \E t \in Tasks : store \notin scopes[t] /\ writes(t, store)]_vars

\* Request 1 wrote the fallback context outside its scope; inside its scope
\* the context is still null and its push has left the fallback list empty.
C40_Witness ==
  /\ "navigation" \in scopes[1]
  /\ heap["navigation"][Fallback0].serverContext = page(1)
  /\ heap["navigation"][Fallback0].serverInsertedHTMLCallbacks = <<>>
  /\ heap["navigation"][1].serverContext = null
  /\ heap["navigation"][1].serverInsertedHTMLCallbacks = page(1)

====
